---- MODULE Spec2Model ----
(***************************************************************************)
(* Climago: comfort scoring, smart alerts, the travel-advice text parser,  *)
(* the server's AI response cache and the pages' fetch orchestration,      *)
(* modelled from src/script.js (the main page's script, and the server)    *)
(* and src/README.md (the compare page's script); the input listener of    *)
(* the city field, from src/script.js; the service worker's fetch handler, *)
(* from src/unnamed/part_000; searches of the main page that overlap.      *)
(*                                                                         *)
(* JavaScript strings are sequences of one-character strings, so that      *)
(* trim, split, toUpperCase and the regular expressions are computed.      *)
(* Temperatures and wind speeds are floats in the source; here they are    *)
(* integers in units of 1/Scale, so values between two whole degrees exist.*)
(***************************************************************************)
EXTENDS Integers, Sequences, FiniteSets, TLC

VARIABLES
    \* main page, renderExtras
    data, aqiData, extrasRendered, qualityScore, alerts,
    \* compare page, renderWeatherCard
    cardRendered, cardScore,
    \* server: Date.now(), the aiCache map, the requests awaiting callGemini,
    \* what the last step did to the cache and answered, the request each
    \* cached text was generated for, and the requests the clients make
    now, aiCache, inFlight, lastStep, writer, clients,
    \* advisor panel, renderTravelAdvice: the text received, and what the
    \* function computed and rendered from it
    adviceText, advisorRendered, sections, places, nearby, wear, eat, alert,
    tips, advisorHtml,
    \* advisor panel, fetchTravelAdvice and retryTravelAdvice: the arguments
    \* of the call under way, window._lastAdviceData with
    \* window._lastAdviceAqi, and whether the Retry button was just clicked
    adviceRequest, lastAdviceData, retryClicked,
    \* the page loaded in the browser
    page,
    \* main page, getWeather and processWeatherData: where the request is,
    \* what ui.result shows, the three promises under Promise.all, and the
    \* summary and the UV reading handed to renderExtras
    mainPhase, resultCard, extraCalls, summaryText, uvData,
    \* compare page, runComparison: where the request is, the promises of
    \* the two Promise.all calls, and what the page shows
    comparePhase, weatherCalls, aqiCalls, compareResults, compareError,
    cards,
    \* compare page, fetchVerdict and renderVerdict: the verdict text
    \* received and what verdictContent shows
    verdictText, verdictContent,
    \* server, POST /api/places: the request body, whether it was answered,
    \* and the gear answered
    placesRequest, placesAnswered, gear,
    \* main page, the input listener of the city field: the id kept in
    \* debounceTimer, the timers pending, the id the next setTimeout returns,
    \* the page's clock in milliseconds, the input events and the calls of
    \* fetchSuggestions so far, the searches awaited, and whether the
    \* suggestion list is hidden
    debounceTimer, timers, nextTimer, pageClock, events, searching,
    suggestionsHidden,
    \* service worker: the responses held in the cache 'climego-v2', and the
    \* fetch events handled, each with what cache.match found, what the
    \* network returned and what the page was answered
    assetCache, fetchEvents,
    \* main page, searches that overlap: state.currentCity and
    \* state.weatherData, what ui.result shows, the searches started with
    \* where each one is, and the forecast requests of showPlanner
    currentCity, weatherData, mainCard, searches, forecastRequests

scoreVars == <<data, aqiData, extrasRendered, qualityScore, alerts,
               cardRendered, cardScore>>
cacheVars == <<now, aiCache, inFlight, lastStep, writer, clients>>

adviceVars == <<adviceText, advisorRendered, sections, places, nearby, wear,
                eat, alert, tips, advisorHtml, adviceRequest,
                lastAdviceData, retryClicked>>
fetchVars == <<page, mainPhase, resultCard, extraCalls, summaryText, uvData,
               comparePhase, weatherCalls, aqiCalls, compareResults,
               compareError, cards>>

verdictVars == <<verdictText, verdictContent>>
gearVars == <<placesRequest, placesAnswered, gear>>

suggestVars == <<debounceTimer, timers, nextTimer, pageClock, events,
                 searching, suggestionsHidden>>
workerVars == <<assetCache, fetchEvents>>
searchVars == <<currentCity, weatherData, mainCard, searches,
                forecastRequests>>
browserVars == <<suggestVars, workerVars, searchVars>>

vars == <<scoreVars, cacheVars, adviceVars, fetchVars, verdictVars, gearVars,
          browserVars>>

----------------------------------------------------------------------------
(* Bounds of the model *)

\* Temperatures and wind speeds are multiples of 1/Scale.
Scale == 2

\* The largest air quality index drawn (OpenWeather's scale ends at 5).
MaxAqi == 5

\* The clock takes the values p * CACHE_TTL + j, p in 0..MaxPeriods and
\* j in 0..MaxJitter milliseconds.
MaxPeriods == 2
MaxJitter == 1

\* Requests that may wait for callGemini at the same time.
MaxInFlight == 2

\* The texts parsed are the sequences of at most MaxAdviceLines lines drawn
\* from AdviceLines, and the fixed texts.
MaxAdviceLines == 3

\* The verdicts rendered are the concatenations of at most MaxVerdictPieces
\* pieces drawn from VerdictPieces.
MaxVerdictPieces == 4

\* The answers in the format asked for list at most MaxItems places (and at
\* most one destination nearby).
MaxItems == 2

\* The page's clock takes the values p * DebounceMs and p * DebounceMs + 1
\* milliseconds, p in 0..MaxPauses; at most MaxEvents input events and
\* calls of fetchSuggestions are followed.
MaxPauses == 2
MaxEvents == 3

\* The service worker handles at most MaxFetchEvents fetch events.
MaxFetchEvents == 3

\* At most MaxSearches searches are started on the main page.
MaxSearches == 2

----------------------------------------------------------------------------
(* JavaScript strings *)

\* the letters that toUpperCase and toLowerCase map, and the classes of
\* the regular expressions over the characters drawn: \s, what the dot
\* does not match, \d, and [-<en dash>] with the en dash, U+2013, as one
\* character
Chars ==
    [lower |-> <<"a","b","c","d","e","f","g","h","i","j","k","l","m",
                 "n","o","p","q","r","s","t","u","v","w","x","y","z">>,
     upper |-> <<"A","B","C","D","E","F","G","H","I","J","K","L","M",
                 "N","O","P","Q","R","S","T","U","V","W","X","Y","Z">>,
     whiteSpace |-> {" ", "\t", "\r", "\n"},
     lineTerminators |-> {"\n", "\r"},
     digits |-> {"0", "1", "2", "3", "4", "5", "6", "7", "8", "9"},
     enDash |-> "U+2013",
     dashes |-> {"-", "U+2013"}]

toUpperCaseChar(c) ==
    IF \E i \in DOMAIN Chars.lower : Chars.lower[i] = c
    THEN Chars.upper[CHOOSE i \in DOMAIN Chars.lower : Chars.lower[i] = c]
    ELSE c

toLowerCaseChar(c) ==
    IF \E i \in DOMAIN Chars.upper : Chars.upper[i] = c
    THEN Chars.lower[CHOOSE i \in DOMAIN Chars.upper : Chars.upper[i] = c]
    ELSE c

toUpperCase(s) == [i \in DOMAIN s |-> toUpperCaseChar(s[i])]
toLowerCase(s) == [i \in DOMAIN s |-> toLowerCaseChar(s[i])]

\* pat occurs in s at position i
MatchAt(s, pat, i) ==
    /\ i >= 1
    /\ i + Len(pat) - 1 <= Len(s)
    /\ \A j \in 1..Len(pat) : s[i + j - 1] = pat[j]

\* String.prototype.includes, and an unanchored regex of one literal
includes(s, pat) == \E i \in 1..(Len(s) + 1) : MatchAt(s, pat, i)

\* an unanchored regex of one literal with the i flag
includesIgnoreCase(s, pat) == includes(toUpperCase(s), toUpperCase(pat))

Min(a, b) == IF a < b THEN a ELSE b
Max(a, b) == IF a > b THEN a ELSE b

----------------------------------------------------------------------------
(* Weather conditions (data.weather[0].main) *)

\* the values drawn, and the words Rain, Snow, Thunder of the patterns
Main ==
    [rain |-> <<"R","a","i","n">>,
     rainLower |-> <<"r","a","i","n">>,
     rainUpper |-> <<"R","A","I","N">>,
     snow |-> <<"S","n","o","w">>,
     snowLower |-> <<"s","n","o","w">>,
     thunder |-> <<"T","h","u","n","d","e","r">>,
     thunderstorm |-> <<"T","h","u","n","d","e","r","s","t","o","r","m">>,
     thunderUpper |-> <<"T","H","U","N","D","E","R","S","T","O","R","M">>,
     clear |-> <<"C","l","e","a","r">>,
     drizzle |-> <<"D","r","i","z","z","l","e">>]

Conditions == {Main.rain, Main.rainLower, Main.rainUpper, Main.snow, Main.snowLower,
               Main.thunderstorm, Main.thunderUpper, Main.clear, Main.drizzle}

----------------------------------------------------------------------------
(* Comfort score *)

\* /Rain|Snow|Thunder/ : no i flag
matchRainSnowThunder(s) ==
    includes(s, Main.rain) \/ includes(s, Main.snow) \/ includes(s, Main.thunder)

scoreWeather_NoLowerClamp(d) ==
    LET temp == d.main.temp
        hum  == d.main.humidity
        s0 == 5
        s1 == IF temp >= 18 * Scale /\ temp <= 26 * Scale THEN s0 + 3
              ELSE IF temp >= 10 * Scale /\ temp < 18 * Scale THEN s0 + 1
              ELSE IF temp > 26 * Scale /\ temp <= 32 * Scale THEN s0 + 1
              ELSE s0
        s2 == IF hum >= 30 /\ hum <= 60 THEN s1 + 2 ELSE s1
        s3 == IF temp > 35 * Scale \/ temp < 0 THEN s2 - 3 ELSE s2
        s4 == IF hum > 80 THEN s3 - 1 ELSE s3
        s5 == IF matchRainSnowThunder(d.weather[1].main) THEN s4 - 2 ELSE s4
    IN  Min(10, s5)

\* the else-if chain of the temperature bonus broken: the tiers add up
scoreWeather_TiersNotExclusive(d) ==
    LET temp == d.main.temp
        hum  == d.main.humidity
        s0 == 5
        s1 == IF temp >= 18 * Scale /\ temp <= 26 * Scale THEN s0 + 3 ELSE s0
        s1b == IF temp >= 10 * Scale /\ temp <= 18 * Scale THEN s1 + 1 ELSE s1
        s1c == IF temp > 26 * Scale /\ temp <= 32 * Scale THEN s1b + 1 ELSE s1b
        s2 == IF hum >= 30 /\ hum <= 60 THEN s1c + 2 ELSE s1c
        s3 == IF temp > 35 * Scale \/ temp < 0 THEN s2 - 3 ELSE s2
        s4 == IF hum > 80 THEN s3 - 1 ELSE s3
        s5 == IF matchRainSnowThunder(d.weather[1].main) THEN s4 - 2 ELSE s4
    IN  Min(10, Max(0, s5))

\* the humidity penalty doubled: a clear day can then reach 0 too
scoreWeather_HumidityPenalty2(d) ==
    LET temp == d.main.temp
        hum  == d.main.humidity
        s0 == 5
        s1 == IF temp >= 18 * Scale /\ temp <= 26 * Scale THEN s0 + 3
              ELSE IF temp >= 10 * Scale /\ temp < 18 * Scale THEN s0 + 1
              ELSE IF temp > 26 * Scale /\ temp <= 32 * Scale THEN s0 + 1
              ELSE s0
        s2 == IF hum >= 30 /\ hum <= 60 THEN s1 + 2 ELSE s1
        s3 == IF temp > 35 * Scale \/ temp < 0 THEN s2 - 3 ELSE s2
        s4 == IF hum > 80 THEN s3 - 2 ELSE s3
        s5 == IF matchRainSnowThunder(d.weather[1].main) THEN s4 - 2 ELSE s4
    IN  Min(10, Max(0, s5))

\* script.js, the main page's copy
scoreWeather(d) ==
    LET temp == d.main.temp
        hum  == d.main.humidity
        s0 == 5
        s1 == IF temp >= 18 * Scale /\ temp <= 26 * Scale THEN s0 + 3
              ELSE IF temp >= 10 * Scale /\ temp < 18 * Scale THEN s0 + 1
              ELSE IF temp > 26 * Scale /\ temp <= 32 * Scale THEN s0 + 1
              ELSE s0
        s2 == IF hum >= 30 /\ hum <= 60 THEN s1 + 2 ELSE s1
        s3 == IF temp > 35 * Scale \/ temp < 0 THEN s2 - 3 ELSE s2
        s4 == IF hum > 80 THEN s3 - 1 ELSE s3
        s5 == IF matchRainSnowThunder(d.weather[1].main) THEN s4 - 2 ELSE s4
    IN  Min(10, Max(0, s5))

\* the compare page's copy
scoreWeatherCompare(d) ==
    LET temp == d.main.temp
        hum  == d.main.humidity
        s0 == 5
        s1 == IF temp >= 18 * Scale /\ temp <= 26 * Scale THEN s0 + 3
              ELSE IF temp >= 10 * Scale /\ temp < 18 * Scale THEN s0 + 1
              ELSE IF temp > 26 * Scale /\ temp <= 32 * Scale THEN s0 + 1
              ELSE s0
        s2 == IF hum >= 30 /\ hum <= 60 THEN s1 + 2 ELSE s1
        s3 == IF temp > 35 * Scale \/ temp < 0 THEN s2 - 3 ELSE s2
        s4 == IF hum > 80 THEN s3 - 1 ELSE s3
        s5 == IF matchRainSnowThunder(d.weather[1].main) THEN s4 - 2 ELSE s4
    IN  Min(10, Max(0, s5))

----------------------------------------------------------------------------
(* Smart alerts *)

Msg ==
    [extremeHeat |->
         "Extreme heat warning - stay indoors and hydrate.",
     highHeat |->
         "High heat advisory - avoid prolonged sun exposure.",
     severeCold |->
         "Severe cold warning - frostbite risk.",
     cold |->
         "Cold advisory - dress warmly.",
     wind |->
         "Strong wind advisory - secure loose objects.",
     humidity |->
         "Very high humidity - may feel uncomfortable.",
     thunder |->
         "Thunderstorm warning - stay indoors.",
     snow |->
         "Snowfall - drive cautiously.",
     rainWind |->
         "Heavy rain with wind - carry sturdy umbrella.",
     aqiPoor |->
         "Air quality is poor - wear a mask outdoors.",
     aqiHazard |->
         "Hazardous air quality - avoid all outdoor activities.",
     challenging |->
         "Overall conditions are challenging - plan accordingly." ]

\* aqiData && aqiData.list
hasAqiList(a) == a.kind = "list"

push(seq, cond, msg) == IF cond THEN Append(seq, msg) ELSE seq

\* the wind rule chained to the cold rule by a stray else
getSmartAlerts_WindElse(d, a, score) ==
    LET temp == d.main.temp
        hum  == d.main.humidity
        wind == d.wind.speed
        condition == d.weather[1].main
        a1 == IF temp > 40 * Scale THEN <<Msg.extremeHeat>>
              ELSE IF temp > 35 * Scale THEN <<Msg.highHeat>>
              ELSE <<>>
        a2 == IF temp < (-5) * Scale THEN Append(a1, Msg.severeCold)
              ELSE IF temp < 5 * Scale THEN Append(a1, Msg.cold)
              ELSE push(a1, wind > 15 * Scale, Msg.wind)
        a4 == push(a2, hum > 85, Msg.humidity)
        a5 == push(a4, includesIgnoreCase(condition, Main.thunder), Msg.thunder)
        a6 == push(a5, includesIgnoreCase(condition, Main.snow), Msg.snow)
        a7 == push(a6, includesIgnoreCase(condition, Main.rain) /\ wind > 10 * Scale,
                   Msg.rainWind)
        a8 == push(a7, hasAqiList(a) /\ a.aqi >= 4, Msg.aqiPoor)
        a9 == push(a8, hasAqiList(a) /\ a.aqi >= 5, Msg.aqiHazard)
    IN  push(a9, score < 3, Msg.challenging)

\* a rain alert whatever the wind
getSmartAlerts_RainAlone(d, a, score) ==
    LET temp == d.main.temp
        hum  == d.main.humidity
        wind == d.wind.speed
        condition == d.weather[1].main
        a1 == IF temp > 40 * Scale THEN <<Msg.extremeHeat>>
              ELSE IF temp > 35 * Scale THEN <<Msg.highHeat>>
              ELSE <<>>
        a2 == IF temp < (-5) * Scale THEN Append(a1, Msg.severeCold)
              ELSE IF temp < 5 * Scale THEN Append(a1, Msg.cold)
              ELSE a1
        a3 == push(a2, wind > 15 * Scale, Msg.wind)
        a4 == push(a3, hum > 85, Msg.humidity)
        a5 == push(a4, includesIgnoreCase(condition, Main.thunder), Msg.thunder)
        a6 == push(a5, includesIgnoreCase(condition, Main.snow), Msg.snow)
        a7 == push(a6, includesIgnoreCase(condition, Main.rain),
                   Msg.rainWind)
        a8 == push(a7, hasAqiList(a) /\ a.aqi >= 4, Msg.aqiPoor)
        a9 == push(a8, hasAqiList(a) /\ a.aqi >= 5, Msg.aqiHazard)
    IN  push(a9, score < 3, Msg.challenging)

\* at 5 the hazard alert replaces the poor alert
getSmartAlerts_HazardOnly(d, a, score) ==
    LET temp == d.main.temp
        hum  == d.main.humidity
        wind == d.wind.speed
        condition == d.weather[1].main
        a1 == IF temp > 40 * Scale THEN <<Msg.extremeHeat>>
              ELSE IF temp > 35 * Scale THEN <<Msg.highHeat>>
              ELSE <<>>
        a2 == IF temp < (-5) * Scale THEN Append(a1, Msg.severeCold)
              ELSE IF temp < 5 * Scale THEN Append(a1, Msg.cold)
              ELSE a1
        a3 == push(a2, wind > 15 * Scale, Msg.wind)
        a4 == push(a3, hum > 85, Msg.humidity)
        a5 == push(a4, includesIgnoreCase(condition, Main.thunder), Msg.thunder)
        a6 == push(a5, includesIgnoreCase(condition, Main.snow), Msg.snow)
        a7 == push(a6, includesIgnoreCase(condition, Main.rain) /\ wind > 10 * Scale,
                   Msg.rainWind)
        a8 == push(a7, hasAqiList(a) /\ a.aqi >= 4, Msg.aqiPoor)
        a9 == IF hasAqiList(a) /\ a.aqi >= 5
              THEN Append(a7, Msg.aqiHazard) ELSE a8
    IN  push(a9, score < 3, Msg.challenging)

\* the cold advisory not chained to the severe cold warning by else
getSmartAlerts_ColdNoElse(d, a, score) ==
    LET temp == d.main.temp
        hum  == d.main.humidity
        wind == d.wind.speed
        condition == d.weather[1].main
        a1 == IF temp > 40 * Scale THEN <<Msg.extremeHeat>>
              ELSE IF temp > 35 * Scale THEN <<Msg.highHeat>>
              ELSE <<>>
        a2 == IF temp < (-5) * Scale THEN Append(a1, Msg.severeCold)
              ELSE a1
        a2b == push(a2, temp < 5 * Scale, Msg.cold)
        a3 == push(a2b, wind > 15 * Scale, Msg.wind)
        a4 == push(a3, hum > 85, Msg.humidity)
        a5 == push(a4, includesIgnoreCase(condition, Main.thunder), Msg.thunder)
        a6 == push(a5, includesIgnoreCase(condition, Main.snow), Msg.snow)
        a7 == push(a6, includesIgnoreCase(condition, Main.rain) /\ wind > 10 * Scale,
                   Msg.rainWind)
        a8 == push(a7, hasAqiList(a) /\ a.aqi >= 4, Msg.aqiPoor)
        a9 == push(a8, hasAqiList(a) /\ a.aqi >= 5, Msg.aqiHazard)
    IN  push(a9, score < 3, Msg.challenging)

getSmartAlerts(d, a, score) ==
    LET temp == d.main.temp
        hum  == d.main.humidity
        wind == d.wind.speed
        condition == d.weather[1].main
        a1 == IF temp > 40 * Scale THEN <<Msg.extremeHeat>>
              ELSE IF temp > 35 * Scale THEN <<Msg.highHeat>>
              ELSE <<>>
        a2 == IF temp < (-5) * Scale THEN Append(a1, Msg.severeCold)
              ELSE IF temp < 5 * Scale THEN Append(a1, Msg.cold)
              ELSE a1
        a3 == push(a2, wind > 15 * Scale, Msg.wind)
        a4 == push(a3, hum > 85, Msg.humidity)
        a5 == push(a4, includesIgnoreCase(condition, Main.thunder), Msg.thunder)
        a6 == push(a5, includesIgnoreCase(condition, Main.snow), Msg.snow)
        a7 == push(a6, includesIgnoreCase(condition, Main.rain) /\ wind > 10 * Scale,
                   Msg.rainWind)
        a8 == push(a7, hasAqiList(a) /\ a.aqi >= 4, Msg.aqiPoor)
        a9 == push(a8, hasAqiList(a) /\ a.aqi >= 5, Msg.aqiHazard)
    IN  push(a9, score < 3, Msg.challenging)

----------------------------------------------------------------------------
(* Inputs of the scoring and alert engines *)

\* whole degrees around which the rules change, and the examples' 22 and 45
Readings ==
    [temp |-> {p * Scale + o : p \in {-5, 0, 5, 10, 18, 26, 32, 35, 40},
                               o \in {-1, 0, 1}}
                 \cup {22 * Scale, 45 * Scale},
     humidity |-> {29, 30, 45, 60, 61, 80, 81, 85, 86, 90},
     wind |-> {5 * Scale, 10 * Scale, 10 * Scale + 1, 12 * Scale,
               15 * Scale, 15 * Scale + 1, 20 * Scale}]

Snapshot(t, h, w, c) ==
    [main |-> [temp |-> t, humidity |-> h],
     wind |-> [speed |-> w],
     weather |-> <<[main |-> c]>>]

Snapshots == {Snapshot(t, h, w, c) : t \in Readings.temp, h \in Readings.humidity,
                                     w \in Readings.wind, c \in Conditions}

\* null (the fetch failed), an object without a list, or a reading
AqiNull == [kind |-> "null", aqi |-> 0]
AqiNoList == [kind |-> "nolist", aqi |-> 0]
AqiReading(n) == [kind |-> "list", aqi |-> n]
AqiReadings == {AqiNull, AqiNoList} \cup {AqiReading(n) : n \in 1..MaxAqi}

----------------------------------------------------------------------------
(* AI response cache (server) *)

CACHE_TTL == 15 * 60 * 1000

\* a JavaScript value that may be null: <<>> is null, <<v>> is v
Null == <<>>
Some(v) == <<v>>

\* the cities asked for, and the pieces of the cache keys
City == [paris |-> <<"P","a","r","i","s">>,
         parisUpper |-> <<"P","A","R","I","S">>,
         rome |-> <<"R","o","m","e">>,
         x |-> <<"x">>,
         xx |-> <<"x","_","x">>]
KeyPiece == [travel |-> <<"t","r","a","v","e","l","_">>,
             compare |-> <<"c","o","m","p","a","r","e","_">>,
             underscore |-> <<"_">>]

\* what callGemini may resolve to (never the empty string: it falls back
\* to 'No content generated')
GeminiTexts == {<<"x">>, <<"y">>}

\* Map.prototype.set and Map.prototype.delete on a map held as a function
mapSet(m, k, v) == [x \in DOMAIN m \cup {k} |-> IF x = k THEN v ELSE m[x]]
mapDelete(m, k) == [x \in DOMAIN m \ {k} |-> m[x]]

\* the expiry test written with >= : an entry of age exactly TTL expires
getCached_ExpiresAtTtl(cache, key, t) ==
    IF key \notin DOMAIN cache
    THEN [ret |-> Null, cache |-> cache]
    ELSE IF t - cache[key].ts >= CACHE_TTL
    THEN [ret |-> Null, cache |-> mapDelete(cache, key)]
    ELSE [ret |-> Some(cache[key].data), cache |-> cache]

\* the delete left out: an expired entry is reported absent but kept
getCached_NoDelete(cache, key, t) ==
    IF key \notin DOMAIN cache
    THEN [ret |-> Null, cache |-> cache]
    ELSE IF t - cache[key].ts > CACHE_TTL
    THEN [ret |-> Null, cache |-> cache]
    ELSE [ret |-> Some(cache[key].data), cache |-> cache]

\* getCached(key) at time t: the value returned and the map it leaves
getCached(cache, key, t) ==
    IF key \notin DOMAIN cache
    THEN [ret |-> Null, cache |-> cache]
    ELSE IF t - cache[key].ts > CACHE_TTL
    THEN [ret |-> Null, cache |-> mapDelete(cache, key)]
    ELSE [ret |-> Some(cache[key].data), cache |-> cache]

\* an entry already cached is kept: the first writer wins
setCache_KeepsFirst(cache, key, d, t) ==
    IF key \in DOMAIN cache THEN cache
    ELSE mapSet(cache, key, [data |-> d, ts |-> t])

\* a set on a cached key changes the text and keeps the old timestamp
setCache_KeepsTimestamp(cache, key, d, t) ==
    IF key \in DOMAIN cache
    THEN mapSet(cache, key, [data |-> d, ts |-> cache[key].ts])
    ELSE mapSet(cache, key, [data |-> d, ts |-> t])

\* setCache(key, data) at time t
setCache(cache, key, d, t) == mapSet(cache, key, [data |-> d, ts |-> t])

truthy_AlsoNull(v) == v = Null \/ v[1] # <<>>

\* if (cached): null and the empty string are falsy
truthy(v) == v # Null /\ v[1] # <<>>

travelKey(city) == KeyPiece.travel \o toLowerCase(city)
compareKey(nameA, nameB) ==
    KeyPiece.compare \o toLowerCase(nameA) \o KeyPiece.underscore \o toLowerCase(nameB)

\* request bodies: city may be missing (the empty string stands for it)
TravelCities == {<<>>, City.paris, City.parisUpper}
ComparePairs == {<<City.paris, City.rome>>, <<City.rome, City.paris>>,
                 <<City.x, City.xx>>, <<City.xx, City.x>>}

\* the requests made in one run: the cities of the travel advice with one
\* comparison, a comparison asked in its two orders, and a comparison of
\* two names of which one holds the separator of the keys
Workloads ==
    {[travel |-> TravelCities, compare |-> {<<City.paris, City.rome>>}],
     [travel |-> {},
      compare |-> {<<City.paris, City.rome>>, <<City.rome, City.paris>>}],
     [travel |-> {},
      compare |-> {<<City.x, City.xx>>, <<City.xx, City.x>>}]}

ClockValues == {p * CACHE_TTL + j : p \in 0..MaxPeriods, j \in 0..MaxJitter}

\* lastStep: the cache call of the last step (op, key, the value returned
\* or stored, whether the call deleted an entry, the entry a set wrote
\* over), the city or the two cities of the request, and the status
\* answered
NoStep == [op |-> "none", key |-> <<>>, ret |-> Null, evicted |-> FALSE,
           replaced |-> Null, req |-> <<>>, status |-> 0]

----------------------------------------------------------------------------
(* Travel advice text parser (renderTravelAdvice) *)


setMin(S) == CHOOSE x \in S : \A y \in S : x <= y
setMax(S) == CHOOSE x \in S : \A y \in S : x >= y

\* how many characters of s, from position i on, are in S (a greedy X*)
runIn(s, i, S) ==
    LET stops == {j \in i..Len(s) : s[j] \notin S}
    IN  IF i > Len(s) THEN 0
        ELSE IF stops = {} THEN Len(s) - i + 1
        ELSE setMin(stops) - i

\* how many characters of s, from position i on, are not in S
runNotIn(s, i, S) ==
    LET stops == {j \in i..Len(s) : s[j] \in S}
    IN  IF i > Len(s) THEN 0
        ELSE IF stops = {} THEN Len(s) - i + 1
        ELSE setMin(stops) - i

\* String.prototype.trim
trim(s) ==
    LET keep == {i \in DOMAIN s : s[i] \notin Chars.whiteSpace}
    IN  IF keep = {} THEN << >> ELSE SubSeq(s, setMin(keep), setMax(keep))

RECURSIVE split(_, _)
\* String.prototype.split with a separator of one character
split(s, sep) ==
    LET at == {i \in DOMAIN s : s[i] = sep}
    IN  IF at = {} THEN <<s>>
        ELSE <<SubSeq(s, 1, setMin(at) - 1)>>
                 \o split(SubSeq(s, setMin(at) + 1, Len(s)), sep)

RECURSIVE join(_, _)
\* Array.prototype.join
join(lines, sep) ==
    IF lines = << >> THEN << >>
    ELSE IF Len(lines) = 1 THEN lines[1]
    ELSE lines[1] \o sep \o join(Tail(lines), sep)

isNotAsterisk(c) == c # "*"
\* s.replace(/[*]/g, '')
removeAsterisks(s) == SelectSeq(s, isNotAsterisk)

\* the five section keys
Key == [PLACES |-> <<"P","L","A","C","E","S">>,
        NEARBY |-> <<"N","E","A","R","B","Y">>,
        WEAR |-> <<"W","E","A","R">>,
        EAT |-> <<"E","A","T">>,
        ALERT |-> <<"A","L","E","R","T">>]
SectionKeys == {Key.PLACES, Key.NEARBY, Key.WEAR, Key.EAT, Key.ALERT}

NoMatch == [matched |-> FALSE, g1 |-> << >>, g2 |-> << >>]

\* trimmed.match(/^(PLACES|NEARBY|WEAR|EAT|ALERT)\s*:\s*(.*)/i): group 1 is
\* the label as written, group 2 what follows up to a line terminator
sectionMatch(trimmed) ==
    LET keys == {k \in SectionKeys : MatchAt(toUpperCase(trimmed), k, 1)}
    IN  IF keys = {} THEN NoMatch
        ELSE
          LET k == CHOOSE x \in keys : TRUE
              colon == Len(k) + 1 + runIn(trimmed, Len(k) + 1, Chars.whiteSpace)
              start == colon + 1 + runIn(trimmed, colon + 1, Chars.whiteSpace)
              len == runNotIn(trimmed, start, Chars.lineTerminators)
          IN  IF colon > Len(trimmed) \/ trimmed[colon] # ":" THEN NoMatch
              ELSE [matched |-> TRUE,
                    g1 |-> SubSeq(trimmed, 1, Len(k)),
                    g2 |-> SubSeq(trimmed, start, start + len - 1)]

\* sections[key] || []
sectionOrEmpty(secs, key) ==
    IF key \in DOMAIN secs THEN secs[key] ELSE << >>

\* a label line adds to the section of an earlier label line of its key
scanLine_KeepsEarlier(st, line) ==
    LET trimmed == trim(line)
        m == sectionMatch(trimmed)
    IN  IF trimmed = << >> THEN st
        ELSE IF m.matched
        THEN LET key == toUpperCase(m.g1)
             IN  [currentKey |-> key,
                  sections |-> mapSet(st.sections, key,
                                      sectionOrEmpty(st.sections, key)
                                         \o (IF m.g2 # << >> THEN <<m.g2>>
                                             ELSE << >>))]
        ELSE IF st.currentKey # << >>
        THEN [st EXCEPT !.sections =
                 mapSet(st.sections, st.currentKey,
                        Append(sectionOrEmpty(st.sections, st.currentKey),
                               trimmed))]
        ELSE st

\* the label kept as written, not upper-cased
scanLine_KeyAsWritten(st, line) ==
    LET trimmed == trim(line)
        m == sectionMatch(trimmed)
    IN  IF trimmed = << >> THEN st
        ELSE IF m.matched
        THEN [currentKey |-> m.g1,
              sections |-> mapSet(st.sections, m.g1,
                                  IF m.g2 # << >> THEN <<m.g2>> ELSE << >>)]
        ELSE IF st.currentKey # << >>
        THEN [st EXCEPT !.sections =
                 mapSet(st.sections, st.currentKey,
                        Append(sectionOrEmpty(st.sections, st.currentKey),
                               trimmed))]
        ELSE st

\* one turn of the for loop over text.split('\n')
scanLine(st, line) ==
    LET trimmed == trim(line)
        m == sectionMatch(trimmed)
    IN  IF trimmed = << >> THEN st
        ELSE IF m.matched
        THEN LET key == toUpperCase(m.g1)
             IN  [currentKey |-> key,
                  sections |-> mapSet(st.sections, key,
                                      IF m.g2 # << >> THEN <<m.g2>> ELSE << >>)]
        ELSE IF st.currentKey # << >>
        THEN [st EXCEPT !.sections =
                 mapSet(st.sections, st.currentKey,
                        Append(sectionOrEmpty(st.sections, st.currentKey),
                               trimmed))]
        ELSE st

RECURSIVE scanLines(_, _)
scanLines(lines, st) ==
    IF lines = << >> THEN st
    ELSE scanLines(Tail(lines), scanLine(st, Head(lines)))

\* let currentKey = 'PLACES' instead of '': text before any label is kept
parseSections_StartInPlaces(text) ==
    scanLines(split(text, "\n"),
              [currentKey |-> Key.PLACES, sections |-> << >>]).sections

\* const sections = {}; let currentKey = ''; for (const line of ...)
parseSections(text) ==
    scanLines(split(text, "\n"),
              [currentKey |-> << >>, sections |-> << >>]).sections

\* l.match(/^\d+\.\s*(.+?)\s*[-<en dash>]\s*(.+)$/): the first \s* is greedy
\* and gives back, the name is the shortest that lets the rest match, the
\* description runs to the end of the string
placeMatch(l) ==
    LET d == runIn(l, 1, Chars.digits)
        p == d + 2
        dashAfter(e) == e + 1 + runIn(l, e + 1, Chars.whiteSpace)
        descStart(e) ==
            Min(dashAfter(e) + 1 + runIn(l, dashAfter(e) + 1, Chars.whiteSpace),
                Len(l))
        dots(a, b) == \A j \in a..b : l[j] \notin Chars.lineTerminators
        ok(a, e) == /\ dots(a, e)
                    /\ dashAfter(e) < Len(l)
                    /\ l[dashAfter(e)] \in Chars.dashes
                    /\ dots(descStart(e), Len(l))
        starts == {a \in p..(p + runIn(l, p, Chars.whiteSpace)) :
                      \E e \in a..Len(l) : ok(a, e)}
    IN  IF d = 0 \/ d + 1 > Len(l) THEN NoMatch
        ELSE IF l[d + 1] # "." \/ starts = {} THEN NoMatch
        ELSE LET a == setMax(starts)
                 e == setMin({x \in a..Len(l) : ok(a, x)})
             IN  [matched |-> TRUE,
                  g1 |-> SubSeq(l, a, e),
                  g2 |-> SubSeq(l, descStart(e), Len(l))]

\* l.replace(/^\d+\.\s*/, '')
stripNumber(l) ==
    LET d == runIn(l, 1, Chars.digits)
    IN  IF d >= 1 /\ d + 1 <= Len(l) /\ l[d + 1] = "."
        THEN SubSeq(l, d + 2 + runIn(l, d + 2, Chars.whiteSpace), Len(l))
        ELSE l

\* the callback of map, with filter(Boolean): no, or one, entry for a line
placeOf(l) ==
    LET m == placeMatch(l)
        clean == trim(removeAsterisks(stripNumber(l)))
    IN  IF m.matched
        THEN <<[name |-> trim(removeAsterisks(m.g1)),
                desc |-> trim(removeAsterisks(m.g2))]>>
        ELSE IF clean # << >> THEN <<[name |-> clean, desc |-> << >>]>>
        ELSE << >>

RECURSIVE placesOf(_)
placesOf(lines) ==
    IF lines = << >> THEN << >>
    ELSE placeOf(Head(lines)) \o placesOf(Tail(lines))

\* parsePlaces(sections.KEY), with its (lines || [])
parsePlaces(secs, key) == placesOf(sectionOrEmpty(secs, key))

\* the lines joined by a comma and a blank
freeText_JoinComma(secs, key) ==
    trim(removeAsterisks(join(sectionOrEmpty(secs, key), <<",", " ">>)))

\* (sections.KEY || []).join(' ').replace(/[*]/g, '').trim()
freeText(secs, key) ==
    trim(removeAsterisks(join(sectionOrEmpty(secs, key), <<" ">>)))

\* the alerts that make no chip, and what the panel shows while the
\* advice is awaited and after it failed
Panel == [none |-> <<"n","o","n","e">>,
          noneDot |-> <<"n","o","n","e",".">>,
          loading |-> <<"loading">>,
          retryCard |-> <<"retry card">>]

\* only 'none' is taken for no alert, 'none.' makes a chip
buildTips_OnlyNone(wearText, eatText, alertText) ==
    (IF wearText # << >> THEN <<[icon |-> "wear", text |-> wearText]>>
     ELSE << >>)
    \o (IF eatText # << >> THEN <<[icon |-> "eat", text |-> eatText]>>
        ELSE << >>)
    \o (IF /\ alertText # << >>
           /\ toLowerCase(alertText) # Panel.none
        THEN <<[icon |-> "alert", text |-> alertText]>>
        ELSE << >>)

\* the Quick Tips chips
buildTips(wearText, eatText, alertText) ==
    (IF wearText # << >> THEN <<[icon |-> "wear", text |-> wearText]>>
     ELSE << >>)
    \o (IF eatText # << >> THEN <<[icon |-> "eat", text |-> eatText]>>
        ELSE << >>)
    \o (IF /\ alertText # << >>
           /\ toLowerCase(alertText) # Panel.none
           /\ toLowerCase(alertText) # Panel.noneDot
        THEN <<[icon |-> "alert", text |-> alertText]>>
        ELSE << >>)

\* the blocks of html, or the placeholder when html is empty
buildHtml(placeList, nearbyList, tipList) ==
    LET html == (IF Len(placeList) > 0 THEN <<"places">> ELSE << >>)
                \o (IF Len(nearbyList) > 0 THEN <<"nearby">> ELSE << >>)
                \o (IF Len(tipList) > 0 THEN <<"tips">> ELSE << >>)
    IN  IF html # << >> THEN html ELSE <<"No travel advice available.">>

\* lines an answer is made of: labels with and without <rest>, in upper,
\* lower and mixed case, a numbered item, content, a blank line, and a
\* line that only looks like a label
SampleLines ==
    [
     \* "PLACES:"
     places |->
         <<"P", "L", "A", "C", "E", "S", ":">>,
     \* "1. Ab - c"
     item |->
         <<"1", ".", " ", "A", "b", " ", "-", " ", "c">>,
     \* "wear : x*"
     wearLower |->
         <<"w", "e", "a", "r", " ", ":", " ", "x", "*">>,
     \* "Eat:fig"
     eat |->
         <<"E", "a", "t", ":", "f", "i", "g">>,
     \* " y z "
     content |->
         <<" ", "y", " ", "z", " ">>,
     \* ""
     blank |->
         <<>>,
     \* "ALERT: None"
     alertNone |->
         <<"A", "L", "E", "R", "T", ":", " ", "N", "o", "n", "e">>,
     \* "EATS: x"
     notLabel |->
         <<"E", "A", "T", "S", ":", " ", "x">> ]

AdviceLines == {SampleLines[k] : k \in DOMAIN SampleLines}

\* whole answers: the format the prompt asks for, items the place pattern
\* splits oddly, carriage returns, an alert of 'none.', a label repeated,
\* lines written as bullets
SampleTexts ==
    [
     \* "PLACES:\n1. Eiffel Tower - Iconic landmark\nNEARBY:\n1. Versailles - 20km, royal palace\nWEAR: Light jacket\nEAT: Croissant at a cafe\nALERT: None"
     example |->
         <<"P", "L", "A", "C", "E", "S", ":", "\n", "1", ".", " ",
           "E", "i", "f", "f", "e", "l", " ", "T", "o", "w", "e", "r",
           " ", "-", " ", "I", "c", "o", "n", "i", "c", " ", "l", "a",
           "n", "d", "m", "a", "r", "k", "\n", "N", "E", "A", "R",
           "B", "Y", ":", "\n", "1", ".", " ", "V", "e", "r", "s",
           "a", "i", "l", "l", "e", "s", " ", "-", " ", "2", "0", "k",
           "m", ",", " ", "r", "o", "y", "a", "l", " ", "p", "a", "l",
           "a", "c", "e", "\n", "W", "E", "A", "R", ":", " ", "L",
           "i", "g", "h", "t", " ", "j", "a", "c", "k", "e", "t",
           "\n", "E", "A", "T", ":", " ", "C", "r", "o", "i", "s",
           "s", "a", "n", "t", " ", "a", "t", " ", "a", " ", "c", "a",
           "f", "e", "\n", "A", "L", "E", "R", "T", ":", " ", "N",
           "o", "n", "e">>,
     \* "NEARBY: 2. Q <en dash> r\n3. ** - d\n4. **\n1. - d\nplain"
     oddItems |->
         <<"N", "E", "A", "R", "B", "Y", ":", " ", "2", ".", " ", "Q",
           " ", Chars.enDash, " ", "r", "\n", "3", ".", " ", "*", "*",
           " ", "-", " ", "d", "\n", "4", ".", " ", "*", "*", "\n",
           "1", ".", " ", "-", " ", "d", "\n", "p", "l", "a", "i", "n">>,
     \* "WEAR: a\rb\r\nPLACES:\r\n1. A - b\rc\r\n"
     carriageReturn |->
         <<"W", "E", "A", "R", ":", " ", "a", "\r", "b", "\r", "\n",
           "P", "L", "A", "C", "E", "S", ":", "\r", "\n", "1", ".",
           " ", "A", " ", "-", " ", "b", "\r", "c", "\r", "\n">>,
     \* "intro\nALERT: none.\nEAT:\n*Fig* tart"
     alertNoneDot |->
         <<"i", "n", "t", "r", "o", "\n", "A", "L", "E", "R", "T",
           ":", " ", "n", "o", "n", "e", ".", "\n", "E", "A", "T",
           ":", "\n", "*", "F", "i", "g", "*", " ", "t", "a", "r", "t">>,
     \* "WEAR: a\nb\nEAT: c\nWEAR: d\ne"
     repeated |->
         <<"W", "E", "A", "R", ":", " ", "a", "\n", "b", "\n", "E",
           "A", "T", ":", " ", "c", "\n", "W", "E", "A", "R", ":",
           " ", "d", "\n", "e">>,
     \* "WEAR:\n* a\n* b\nEAT: **\nALERT: c *"
     bullets |->
         <<"W", "E", "A", "R", ":", "\n", "*", " ", "a", "\n", "*",
           " ", "b", "\n", "E", "A", "T", ":", " ", "*", "*", "\n",
           "A", "L", "E", "R", "T", ":", " ", "c", " ", "*">> ]

FixedTexts == {SampleTexts[k] : k \in DOMAIN SampleTexts}

RECURSIVE lineSeqs(_)
\* the sequences of at most n lines
lineSeqs(n) ==
    IF n = 0 THEN {<< >>}
    ELSE LET shorter == lineSeqs(n - 1)
         IN  shorter \cup {Append(ls, l) : ls \in shorter, l \in AdviceLines}

\* The format the prompt asks the answer in: PLACES: and NEARBY: followed
\* by lines '<n>. <name> - <description>', then one line each of WEAR:,
\* EAT: and ALERT:, the sections set apart by a blank line (gap = TRUE) or
\* not.
RECURSIVE itemLines(_, _)
itemLines(items, n) ==
    IF items = << >> THEN << >>
    ELSE <<(<<<<"1", "2", "3", "4", "5">>[n], ".", " ">> \o Head(items).name
               \o <<" ", "-", " ">> \o Head(items).desc)>>
             \o itemLines(Tail(items), n + 1)

formatAdvice(p, gap) ==
    LET sep == IF gap THEN << << >> >> ELSE << >>
    IN  join(<<Key.PLACES \o <<":">>>> \o itemLines(p.places, 1) \o sep
             \o <<Key.NEARBY \o <<":">>>> \o itemLines(p.nearby, 1) \o sep
             \o <<Key.WEAR \o <<":", " ">> \o p.wear>> \o sep
             \o <<Key.EAT \o <<":", " ">> \o p.eat>> \o sep
             \o <<Key.ALERT \o <<":", " ">> \o p.alert>>,
             <<"\n">>)

\* places an answer names: a plain name, a name with a hyphen, a
\* description with a dash
SampleItems ==
    {[name |-> <<"A", "b">>, desc |-> <<"c", " ", "d">>],
     [name |-> <<"N", "-", "D">>, desc |-> <<"c", " ", "d">>],
     [name |-> <<"A", "b">>, desc |-> <<"e", " ", "-", " ", "f">>]}

RECURSIVE itemSeqs(_)
\* the sequences of at most n items
itemSeqs(n) ==
    IF n = 0 THEN {<< >>}
    ELSE LET shorter == itemSeqs(n - 1)
         IN  shorter \cup {Append(is, it) : is \in shorter, it \in SampleItems}

\* the values written in the answers in the format asked for
FormatValues ==
    [places : itemSeqs(MaxItems), nearby : itemSeqs(1),
     wear : {<<"x", " ", "y">>}, eat : {<<"f", "i", "g">>},
     alert : {<<"N", "o", "n", "e">>, <<"z">>}]

FormattedTexts == {formatAdvice(p, gap) : p \in FormatValues, gap \in BOOLEAN}

\* fetchTravelAdvice(data, aqiVal): data.name and the AQI index
AdviceRequests == {[name |-> City.paris, aqi |-> 2],
                   [name |-> City.rome, aqi |-> 5]}

\* result.advice is truthy, so the text rendered is never the empty string
AdviceTexts == ({join(ls, <<"\n">>) : ls \in lineSeqs(MaxAdviceLines)}
                    \cup FixedTexts \cup FormattedTexts) \ {<< >>}

----------------------------------------------------------------------------
(* Fetch orchestration of the main page and of the compare page *)

\* What an upstream call gives back: the fetch fails (net is FALSE), or a
\* response arrives whose status is ok or not and whose body is the JSON
\* payload asked for, a JSON error object, or text that JSON.parse refuses.
Bodies == {"payload", "error_object", "unparsable"}
Responses ==
    {[net |-> FALSE, ok |-> FALSE, body |-> "unparsable"]}
        \cup {[net |-> TRUE, ok |-> o, body |-> b] : o \in BOOLEAN, b \in Bodies}

\* the promise of an async function
Promise == [none |-> [state |-> "none", value |-> Null],
            pending |-> [state |-> "pending", value |-> Null],
            rejected |-> [state |-> "rejected", value |-> Null]]
Fulfilled(v) == [state |-> "fulfilled", value |-> Some(v)]

\* main page, fetchAPI: await fetch, await res.json(), throw if !res.ok;
\* the value is the kind of body parsed
fetchAPI(r) ==
    IF ~r.net THEN Promise.rejected
    ELSE IF r.body = "unparsable" THEN Promise.rejected
    ELSE IF ~r.ok THEN Promise.rejected
    ELSE Fulfilled(r.body)

\* try { return await fetchAPI(...) } catch { return null }
fetchAQI(r, payload) ==
    LET p == fetchAPI(r)
    IN  IF p.state = "rejected" THEN Fulfilled(AqiNull)
        ELSE IF p.value = Some("payload") THEN Fulfilled(payload)
        ELSE Fulfilled(AqiNoList)

\* null, a reading (current.uvi), or an object without one
fetchUV(r) ==
    LET p == fetchAPI(r)
    IN  IF p.state = "rejected" THEN Fulfilled("null")
        ELSE IF p.value = Some("payload") THEN Fulfilled("current")
        ELSE Fulfilled("other")

\* the reply of /ai, or the sentence built from the weather data: a body
\* without a usable reply throws inside the try as a failed fetch does
getSummary(r) ==
    IF r.net /\ r.body = "payload" THEN Fulfilled("reply")
    ELSE Fulfilled("fallback")

\* compare page, fetchWeather: throw if !res.ok, else return res.json();
\* the body parsed is the weather, or an object without coord
fetchWeather(r, d) ==
    IF ~r.net THEN Promise.rejected
    ELSE IF ~r.ok THEN Promise.rejected
    ELSE IF r.body = "unparsable" THEN Promise.rejected
    ELSE IF r.body = "payload" THEN Fulfilled([hasCoord |-> TRUE, data |-> d])
    ELSE Fulfilled([hasCoord |-> FALSE, data |-> d])

\* compare page, fetchAQI: try { res = await fetch(...); return res.json() }
\* catch { return null }: the promise of res.json() is returned, not
\* awaited, so its rejection is the function's
fetchAQICompare(r, payload) ==
    IF ~r.net THEN Fulfilled(AqiNull)
    ELSE IF r.body = "unparsable" THEN Promise.rejected
    ELSE IF r.body = "payload" THEN Fulfilled(payload)
    ELSE Fulfilled(AqiNoList)

\* (aqi && aqi.list) ? aqi.list[0].main.aqi : 0
aqiValOf(a) == IF hasAqiList(a) THEN a.aqi ELSE 0

\* Promise.all settles when one promise rejects or when all are fulfilled
anyRejected(calls) == \E c \in DOMAIN calls : calls[c].state = "rejected"
allFulfilled(calls) == \A c \in DOMAIN calls : calls[c].state = "fulfilled"

\* a card of the compare page: empty, or rendered with a score and an AQI
NoCard == [rendered |-> FALSE, score |-> 0, aqi |-> 0]
Card(d, aqiVal) ==
    [rendered |-> TRUE, score |-> scoreWeatherCompare(d), aqi |-> aqiVal]

\* the calls under the Promise.all of processWeatherData, and the two
\* cities of runComparison
Calls == [extras |-> {"aqi", "summary", "uv"}, sides |-> {"A", "B"}]

\* the weather of the searches: one where nothing alarms, one with alerts
FetchSnapshots == {Snapshot(22 * Scale, 45, 5 * Scale, Main.clear),
                   Snapshot(41 * Scale, 90, 20 * Scale, Main.thunderstorm)}

----------------------------------------------------------------------------
(* Compare page: the verdict text parser (renderVerdict) *)

\* the labels of the three patterns
Label ==
    [comparison |-> <<"C","O","M","P","A","R","I","S","O","N",":">>,
     winner |-> <<"W","I","N","N","E","R",":">>,
     reason |-> <<"R","E","A","S","O","N",":">>]

\* text.match(/LABEL:\s*(.+?)(?=STOP:|$)/s), group 1, or null. The match
\* starts at the first LABEL: that something follows; \s* takes all the
\* blanks it can and gives one back when nothing else is left for (.+?),
\* which then grows, over line breaks too, until a STOP: label or the end
\* of the text follows.
labelCapture(text, label, stops) ==
    LET at == {i \in DOMAIN text : MatchAt(text, label, i)}
    IN  IF at = {} THEN Null
        ELSE
          LET p == setMin(at) + Len(label)
              start == Min(p + runIn(text, p, Chars.whiteSpace), Len(text))
              ends == {e \in start..Len(text) :
                          \/ e = Len(text)
                          \/ \E s \in stops : MatchAt(text, s, e + 1)}
          IN  IF p > Len(text) THEN Null
              ELSE Some(SubSeq(text, start, setMin(ends)))

\* if (match) field = match[1].trim(), else ''
fieldOf(capture) == IF capture = Null THEN << >> ELSE trim(capture[1])

RECURSIVE replaceNewlines(_)
\* text.replace(/\n/g, '<br>')
replaceNewlines(text) ==
    IF text = << >> THEN << >>
    ELSE (IF Head(text) = "\n" THEN <<"<br>">> ELSE <<Head(text)>>)
             \o replaceNewlines(Tail(text))

\* what verdictContent shows
VerdictView(view, text, comparison, winner, reason) ==
    [view |-> view, text |-> text, comparison |-> comparison,
     winner |-> winner, reason |-> reason]

\* renderVerdict(text, nameA, nameB): the innerHTML it writes
renderVerdictView(text) ==
    LET comparison == fieldOf(labelCapture(text, Label.comparison, {Label.winner}))
        winner == fieldOf(labelCapture(text, Label.winner, {Label.reason}))
        reason == fieldOf(labelCapture(text, Label.reason, {}))
    IN  IF winner = << >>
        THEN VerdictView("raw", replaceNewlines(text), << >>, << >>, << >>)
        ELSE VerdictView("structured", << >>, comparison, winner, reason)

\* pieces a verdict is made of
VerdictPieces ==
    {Label.comparison, Label.winner, Label.reason, <<" ">>, <<"\n">>, <<"a">>,
     <<"w","i","n","n","e","r",":">>}

RECURSIVE pieceTexts(_)
\* the concatenations of at most n pieces
pieceTexts(n) ==
    IF n = 0 THEN {<< >>}
    ELSE LET shorter == pieceTexts(n - 1)
         IN  shorter \cup {t \o p : t \in shorter, p \in VerdictPieces}

\* result.verdict is truthy, so the text rendered is never the empty string
VerdictTexts == pieceTexts(MaxVerdictPieces) \ {<< >>}

----------------------------------------------------------------------------
(* Server: the gear rules of POST /api/places *)

\* the items, as pushed
Gear ==
    [sunscreen |-> "Sunscreen", hat |-> "Hat/Sunglasses",
     umbrella |-> "Umbrella", boots |-> "Boots", coat |-> "Coat/Jacket",
     water |-> "Water Bottle", shoes |-> "Comfortable Shoes"]

\* the words looked for in the condition
Word ==
    [rain |-> <<"r","a","i","n">>,
     drizzle |-> <<"d","r","i","z","z","l","e">>,
     thunder |-> <<"t","h","u","n","d","e","r">>,
     snow |-> <<"s","n","o","w">>]

\* the coat and the bottle not chained by else, the bottle first
gearOf_BottleFirst(body) ==
    LET cond == IF body.condition = Null THEN << >>
                ELSE toLowerCase(body.condition[1])
        g1 == IF body.uv # Null /\ body.uv[1] # 0 /\ body.uv[1] > 5 * Scale
              THEN <<Gear.sunscreen, Gear.hat>> ELSE << >>
        g2 == push(g1, \/ includes(cond, Word.rain)
                       \/ includes(cond, Word.drizzle)
                       \/ includes(cond, Word.thunder), Gear.umbrella)
        g3 == push(g2, body.temp # Null /\ body.temp[1] > 30, Gear.water)
        g4 == push(g3, includes(cond, Word.snow), Gear.boots)
        g5 == push(g4, body.temp # Null /\ body.temp[1] < 15, Gear.coat)
    IN  IF g5 = << >> THEN <<Gear.shoes>> ELSE g5

\* the list as the rules leave it, nothing added to an empty one
gearOf_NoFallback(body) ==
    LET cond == IF body.condition = Null THEN << >>
                ELSE toLowerCase(body.condition[1])
        g1 == IF body.uv # Null /\ body.uv[1] # 0 /\ body.uv[1] > 5 * Scale
              THEN <<Gear.sunscreen, Gear.hat>> ELSE << >>
        g2 == push(g1, \/ includes(cond, Word.rain)
                       \/ includes(cond, Word.drizzle)
                       \/ includes(cond, Word.thunder), Gear.umbrella)
        g3 == push(g2, includes(cond, Word.snow), Gear.boots)
    IN  IF body.temp # Null /\ body.temp[1] < 15
        THEN Append(g3, Gear.coat)
        ELSE IF body.temp # Null /\ body.temp[1] > 30
        THEN Append(g3, Gear.water)
        ELSE g3

\* const gear = []; ... ; res.json({ places, gear }): the items of gear.
\* A field missing from req.body is Null: uv && uv > 5, (condition || '')
\* and the comparisons of temp are then false or empty.
gearOf(body) ==
    LET \* (condition || '').toLowerCase()
        cond == IF body.condition = Null THEN << >>
                ELSE toLowerCase(body.condition[1])
        \* if (uv && uv > 5)
        g1 == IF body.uv # Null /\ body.uv[1] # 0 /\ body.uv[1] > 5 * Scale
              THEN <<Gear.sunscreen, Gear.hat>> ELSE << >>
        g2 == push(g1, \/ includes(cond, Word.rain)
                       \/ includes(cond, Word.drizzle)
                       \/ includes(cond, Word.thunder), Gear.umbrella)
        g3 == push(g2, includes(cond, Word.snow), Gear.boots)
        \* if (temp < 15) ... else if (temp > 30) ...
        g4 == IF body.temp # Null /\ body.temp[1] < 15
              THEN Append(g3, Gear.coat)
              ELSE IF body.temp # Null /\ body.temp[1] > 30
              THEN Append(g3, Gear.water)
              ELSE g3
    IN  IF g4 = << >> THEN <<Gear.shoes>> ELSE g4

\* what the client and other callers post: descriptions of the weather in
\* several letter cases, one that says thunder and not thunderstorm
GearConditions ==
    {<<"l","i","g","h","t"," ","r","a","i","n">>,
     <<"D","r","i","z","z","l","e">>,
     <<"T","H","U","N","D","E","R","S","T","O","R","M">>,
     <<"T","h","u","n","d","e","r","y"," ","s","h","o","w","e","r","s">>,
     <<"R","a","i","n"," ","a","n","d"," ","S","n","o","w">>,
     <<"S","N","O","W">>,
     <<"c","l","e","a","r"," ","s","k","y">>,
     <<"C","l","e","a","r">>}

\* req.body: temp in whole degrees, uv in units of 1/Scale
PlacesBodies ==
    [city : {City.paris},
     temp : {Null} \cup {Some(t) : t \in {5, 14, 15, 20, 30, 31}},
     condition : {Null} \cup {Some(c) : c \in GearConditions},
     aqi : {2, 5},
     uv : {Null} \cup {Some(u) : u \in {0, Scale, 5 * Scale, 5 * Scale + 1}}]

----------------------------------------------------------------------------
(* Autosuggest: the input listener of the city field                      *)

\* setTimeout(..., 300)
DebounceMs == 300

\* e.target.value of an input event
InputValues == {<<" ", "p", "a", " ">>, <<"p", "a", "r", " ">>,
                <<"p", "a", "r", "i">>}

\* the pending timer is left to run
clearTimeout_Nothing(pending, id) == pending

\* clearTimeout(id): the timer of that id, if it is still pending, is gone;
\* undefined and the id of a timer that fired cancel nothing
clearTimeout(pending, id) ==
    IF id = Null THEN pending ELSE {t \in pending : t.id # id[1]}

----------------------------------------------------------------------------
(* Service worker: the fetch handler                                      *)

\* event.request.url of the requests followed: an API call of the page, a
\* precached asset, and the summary endpoint, whose path holds no '/api/'
Url == [search |-> <<"/","a","p","i","/","s","e","a","r","c","h">>,
        style |-> <<"/","s","t","y","l","e",".","c","s","s">>,
        ai |-> <<"/","a","i">>]

\* what the network returns for a request
NetworkBodies == {"fresh", "fresher"}

\* the cache is consulted for every request
isApiRequest_Never(url) == FALSE

\* event.request.url.includes('/api/')
isApiRequest(url) == includes(url, <<"/","a","p","i","/">>)

\* response || fetchPromise, once the promise chosen has settled
respondWith(matched, net) == IF matched # Null THEN matched ELSE net

----------------------------------------------------------------------------
(* The components at rest: each specification below runs one component    *)
(* and leaves the others as they are after construction                   *)

ScoreIdle ==
    /\ data = Snapshot(22 * Scale, 45, 5 * Scale, Main.clear)
    /\ aqiData = AqiNull
    /\ extrasRendered = FALSE
    /\ qualityScore = 0
    /\ alerts = << >>
    /\ cardRendered = FALSE
    /\ cardScore = 0

\* const aiCache = new Map(), and no request yet
CacheEmpty ==
    /\ now = 0
    /\ aiCache = << >>
    /\ inFlight = << >>
    /\ lastStep = NoStep
    /\ writer = << >>

CacheIdle ==
    /\ CacheEmpty
    /\ clients = [travel |-> {}, compare |-> {}]

AdviceIdle ==
    /\ adviceText = << >>
    /\ advisorRendered = FALSE
    /\ sections = << >>
    /\ places = << >>
    /\ nearby = << >>
    /\ wear = << >>
    /\ eat = << >>
    /\ alert = << >>
    /\ tips = << >>
    /\ advisorHtml = << >>
    /\ adviceRequest = Null
    /\ lastAdviceData = Null
    /\ retryClicked = FALSE

RequestsIdle ==
    /\ mainPhase = "idle"
    /\ resultCard = "empty"
    /\ extraCalls = [c \in Calls.extras |-> Promise.none]
    /\ summaryText = "none"
    /\ uvData = "null"
    /\ comparePhase = "idle"
    /\ weatherCalls = [s \in Calls.sides |-> Promise.none]
    /\ aqiCalls = [s \in Calls.sides |-> Promise.none]
    /\ compareResults = "hidden"
    /\ compareError = "hidden"
    /\ cards = [s \in Calls.sides |-> NoCard]

FetchIdle ==
    /\ page = "index"
    /\ RequestsIdle

VerdictIdle ==
    /\ verdictText = << >>
    /\ verdictContent = VerdictView("empty", << >>, << >>, << >>, << >>)

GearIdle ==
    /\ placesRequest = Null
    /\ placesAnswered = FALSE
    /\ gear = << >>


\* let debounceTimer; no key pressed yet, the list hidden
SuggestIdle ==
    /\ debounceTimer = Null
    /\ timers = {}
    /\ nextTimer = 1
    /\ pageClock = 0
    /\ events = << >>
    /\ searching = 0
    /\ suggestionsHidden = TRUE

\* the worker is installed: cache.addAll(urlsToCache) has stored the
\* stylesheet, and no fetch event has come
WorkerIdle ==
    /\ assetCache = (Url.style :> "precached")
    /\ fetchEvents = << >>

\* const state = {currentCity: '', weatherData: null, ...}
SearchIdle ==
    /\ currentCity = << >>
    /\ weatherData = Null
    /\ mainCard = "empty"
    /\ searches = << >>
    /\ forecastRequests = << >>
----------------------------------------------------------------------------
(* The server's AI response cache under the travel-advice and the         *)
(* compare-verdict endpoints                                              *)

InitCache ==
    /\ ScoreIdle
    /\ CacheEmpty
    /\ clients \in Workloads
    /\ AdviceIdle
    /\ FetchIdle
    /\ VerdictIdle
    /\ GearIdle
    /\ SuggestIdle
    /\ WorkerIdle
    /\ SearchIdle

\* Date.now() moves on by a millisecond or by a whole TTL
clockAdvance ==
    /\ \E d \in {1, CACHE_TTL} :
          /\ now + d \in ClockValues
          /\ now' = now + d
    /\ lastStep' = NoStep
    /\ UNCHANGED <<aiCache, inFlight, writer, clients>>
    /\ UNCHANGED <<scoreVars, adviceVars, fetchVars,
                   verdictVars, gearVars,
                   browserVars>>

\* the wall clock is set back by a millisecond
clockSetBack ==
    /\ now - 1 \in ClockValues
    /\ now' = now - 1
    /\ lastStep' = NoStep
    /\ UNCHANGED <<aiCache, inFlight, writer, clients>>
    /\ UNCHANGED <<scoreVars, adviceVars, fetchVars,
                   verdictVars, gearVars,
                   browserVars>>

\* the synchronous part of a cached endpoint, up to the await of callGemini
lookupOrForward(ep, key, req) ==
    LET r == getCached(aiCache, key, now)
    IN  /\ aiCache' = r.cache
        /\ IF truthy(r.ret)
           THEN /\ lastStep' = [op |-> "get", key |-> key, ret |-> r.ret,
                                evicted |-> FALSE, replaced |-> Null,
                                req |-> req, status |-> 200]
                /\ UNCHANGED inFlight
           ELSE /\ lastStep' = [op |-> "get", key |-> key, ret |-> r.ret,
                                evicted |-> (key \in DOMAIN aiCache
                                             /\ key \notin DOMAIN r.cache),
                                replaced |-> Null, req |-> req,
                                status |-> 0]
                /\ inFlight' = Append(inFlight,
                                    [ep |-> ep, key |-> key, req |-> req])

\* POST /api/travel-advice, to the cache answer or the call of callGemini
travelAdviceRequest ==
    /\ Len(inFlight) < MaxInFlight
    /\ \E city \in clients.travel :
          IF city = <<>>
          THEN /\ lastStep' = [NoStep EXCEPT !.status = 400]
               /\ UNCHANGED <<aiCache, inFlight>>
          ELSE lookupOrForward("travel", travelKey(city), <<city>>)
    /\ UNCHANGED <<now, writer, clients>>
    /\ UNCHANGED <<scoreVars, adviceVars, fetchVars,
                   verdictVars, gearVars,
                   browserVars>>

\* POST /api/compare-verdict, to the cache answer or the call of callGemini
compareVerdictRequest ==
    /\ Len(inFlight) < MaxInFlight
    /\ \E pair \in clients.compare \cup {<<>>} :
          IF pair = <<>>
          THEN /\ lastStep' = [NoStep EXCEPT !.status = 400]
               /\ UNCHANGED <<aiCache, inFlight>>
          ELSE lookupOrForward("compare", compareKey(pair[1], pair[2]), pair)
    /\ UNCHANGED <<now, writer, clients>>
    /\ UNCHANGED <<scoreVars, adviceVars, fetchVars,
                   verdictVars, gearVars,
                   browserVars>>

removeAt(seq, i) == [j \in 1..(Len(seq) - 1) |-> IF j < i THEN seq[j] ELSE seq[j + 1]]

\* callGemini resolves: the text is cached and sent
geminiResolved ==
    \E i \in DOMAIN inFlight, text \in GeminiTexts :
        /\ aiCache' = setCache(aiCache, inFlight[i].key, text, now)
        /\ lastStep' = [op |-> "set", key |-> inFlight[i].key,
                        ret |-> Some(text), evicted |-> FALSE,
                        replaced |-> (IF inFlight[i].key \in DOMAIN aiCache
                                      THEN Some(aiCache[inFlight[i].key])
                                      ELSE Null),
                        req |-> inFlight[i].req, status |-> 200]
        /\ writer' = mapSet(writer, inFlight[i].key, inFlight[i].req)
        /\ inFlight' = removeAt(inFlight, i)
        /\ UNCHANGED <<now, clients>>
        /\ UNCHANGED <<scoreVars, adviceVars, fetchVars,
                   verdictVars, gearVars,
                   browserVars>>

\* callGemini throws: status 500, the cache is not written
geminiRejected ==
    \E i \in DOMAIN inFlight :
        /\ lastStep' = [NoStep EXCEPT !.status = 500]
        /\ inFlight' = removeAt(inFlight, i)
        /\ UNCHANGED <<now, aiCache, writer, clients>>
        /\ UNCHANGED <<scoreVars, adviceVars, fetchVars,
                   verdictVars, gearVars,
                   browserVars>>

NextCache ==
    \/ clockAdvance
    \/ clockSetBack
    \/ travelAdviceRequest
    \/ compareVerdictRequest
    \/ geminiResolved
    \/ geminiRejected

SpecCache == InitCache /\ [][NextCache]_vars

----------------------------------------------------------------------------
(* The scoring pages: one snapshot, rendered by the main page's             *)
(* renderExtras and by the compare page's renderWeatherCard                 *)

InitScore ==
    /\ data \in Snapshots
    /\ aqiData \in AqiReadings
    /\ extrasRendered = FALSE
    /\ qualityScore = 0
    /\ alerts = <<>>
    /\ cardRendered = FALSE
    /\ cardScore = 0
    /\ CacheIdle
    /\ AdviceIdle
    /\ FetchIdle
    /\ VerdictIdle
    /\ GearIdle
    /\ SuggestIdle
    /\ WorkerIdle
    /\ SearchIdle

renderExtras ==
    /\ ~extrasRendered
    /\ extrasRendered' = TRUE
    /\ qualityScore' = scoreWeather(data)
    /\ alerts' = getSmartAlerts(data, aqiData, scoreWeather(data))
    /\ UNCHANGED <<data, aqiData, cardRendered, cardScore>>
    /\ UNCHANGED <<cacheVars, adviceVars, fetchVars,
                   verdictVars, gearVars,
                   browserVars>>

renderWeatherCard ==
    /\ ~cardRendered
    /\ cardRendered' = TRUE
    /\ cardScore' = scoreWeatherCompare(data)
    /\ UNCHANGED <<data, aqiData, extrasRendered, qualityScore, alerts>>
    /\ UNCHANGED <<cacheVars, adviceVars, fetchVars,
                   verdictVars, gearVars,
                   browserVars>>

NextScore == renderExtras \/ renderWeatherCard

SpecScore == InitScore /\ [][NextScore]_vars

----------------------------------------------------------------------------
(* The advisor panel: fetchTravelAdvice shows the loading state, and the  *)
(* answer is rendered by renderTravelAdvice or replaced by the retry card *)

InitAdvice ==
    /\ ScoreIdle
    /\ CacheIdle
    /\ AdviceIdle
    /\ FetchIdle
    /\ VerdictIdle
    /\ GearIdle
    /\ SuggestIdle
    /\ WorkerIdle
    /\ SearchIdle

\* up to the await: the section is shown with the loading state
fetchTravelAdvice ==
    /\ advisorHtml # Panel.loading
    /\ \E d \in AdviceRequests : adviceRequest' = Some(d)
    /\ UNCHANGED lastAdviceData
    /\ retryClicked' = FALSE
    /\ advisorHtml' = Panel.loading
    /\ advisorRendered' = FALSE
    /\ adviceText' = << >>
    /\ sections' = << >>
    /\ places' = << >>
    /\ nearby' = << >>
    /\ wear' = << >>
    /\ eat' = << >>
    /\ alert' = << >>
    /\ tips' = << >>
    /\ UNCHANGED <<scoreVars, cacheVars, fetchVars,
                   verdictVars, gearVars,
                   browserVars>>

\* result.advice is truthy: renderTravelAdvice(result.advice)
renderTravelAdvice ==
    /\ advisorHtml = Panel.loading
    /\ \E text \in AdviceTexts :
          LET s == parseSections(text)
              p == parsePlaces(s, Key.PLACES)
              n == parsePlaces(s, Key.NEARBY)
              w == freeText(s, Key.WEAR)
              e == freeText(s, Key.EAT)
              a == freeText(s, Key.ALERT)
              t == buildTips(w, e, a)
          IN  /\ adviceText' = text
              /\ sections' = s
              /\ places' = p
              /\ nearby' = n
              /\ wear' = w
              /\ eat' = e
              /\ alert' = a
              /\ tips' = t
              /\ advisorHtml' = buildHtml(p, n, t)
    /\ advisorRendered' = TRUE
    /\ retryClicked' = FALSE
    /\ UNCHANGED <<adviceRequest, lastAdviceData>>
    /\ UNCHANGED <<scoreVars, cacheVars, fetchVars,
                   verdictVars, gearVars,
                   browserVars>>

\* the catch block: no advice in the answer, or the fetch failed; the
\* block logs the error and shows the card with the Retry button, and
\* assigns nothing else
travelAdviceFailed ==
    /\ advisorHtml = Panel.loading
    /\ advisorHtml' = Panel.retryCard
    /\ retryClicked' = FALSE
    /\ UNCHANGED <<adviceText, advisorRendered, sections, places, nearby,
                   wear, eat, alert, tips, adviceRequest, lastAdviceData>>
    /\ UNCHANGED <<scoreVars, cacheVars, fetchVars,
                   verdictVars, gearVars,
                   browserVars>>

\* a click on the Retry button of the card: window.retryTravelAdvice()
retryTravelAdvice ==
    /\ advisorHtml = Panel.retryCard
    /\ retryClicked' = TRUE
    /\ IF lastAdviceData # Null
       THEN /\ adviceRequest' = lastAdviceData
            /\ advisorHtml' = Panel.loading
            /\ advisorRendered' = FALSE
            /\ adviceText' = << >>
            /\ sections' = << >>
            /\ places' = << >>
            /\ nearby' = << >>
            /\ wear' = << >>
            /\ eat' = << >>
            /\ alert' = << >>
            /\ tips' = << >>
       ELSE UNCHANGED <<adviceText, advisorRendered, sections, places,
                        nearby, wear, eat, alert, tips, advisorHtml,
                        adviceRequest>>
    /\ UNCHANGED lastAdviceData
    /\ UNCHANGED <<scoreVars, cacheVars, fetchVars,
                   verdictVars, gearVars,
                   browserVars>>

NextAdvice ==
    \/ fetchTravelAdvice
    \/ renderTravelAdvice
    \/ travelAdviceFailed
    \/ retryTravelAdvice

SpecAdvice == InitAdvice /\ [][NextAdvice]_vars

----------------------------------------------------------------------------
(* The pages' requests: getWeather and processWeatherData on the main     *)
(* page, runComparison on the compare page                                *)

\* the page loaded is index.html or compare.html
InitFetch ==
    /\ ScoreIdle
    /\ CacheIdle
    /\ AdviceIdle
    /\ page \in {"index", "compare"}
    /\ RequestsIdle
    /\ VerdictIdle
    /\ GearIdle
    /\ SuggestIdle
    /\ WorkerIdle
    /\ SearchIdle

compareVars == <<comparePhase, weatherCalls, aqiCalls, compareResults,
                 compareError, cards>>
mainVars == <<page, mainPhase, resultCard, extraCalls, summaryText, uvData>>

\* getWeather up to its await: setLoading(true), resetUI()
getWeather ==
    /\ page = "index"
    /\ mainPhase \in {"idle", "done"}
    /\ mainPhase' = "weather"
    /\ resultCard' = "loading"
    /\ extrasRendered' = FALSE
    /\ UNCHANGED <<data, aqiData, qualityScore, alerts, cardRendered,
                   cardScore>>
    /\ UNCHANGED <<page, extraCalls, summaryText, uvData>>
    /\ UNCHANGED <<compareVars, cacheVars, adviceVars,
                   verdictVars, gearVars,
                   browserVars>>

\* /api/weather answers: showError, or processWeatherData up to its await
\* (renderWeather, and the three fetches issued together)
weatherResponded ==
    /\ page = "index"
    /\ mainPhase = "weather"
    /\ \E r \in Responses, d \in FetchSnapshots :
          IF fetchAPI(r) = Fulfilled("payload")
          THEN /\ data' = d
               /\ resultCard' = "weather"
               /\ extraCalls' = [c \in Calls.extras |-> Promise.pending]
               /\ mainPhase' = "extras"
          ELSE /\ resultCard' = "error"
               /\ mainPhase' = "done"
               /\ UNCHANGED <<data, extraCalls>>
    /\ UNCHANGED <<aqiData, extrasRendered, qualityScore, alerts,
                   cardRendered, cardScore>>
    /\ UNCHANGED <<page, summaryText, uvData>>
    /\ UNCHANGED <<compareVars, cacheVars, adviceVars,
                   verdictVars, gearVars,
                   browserVars>>

\* /api/aqi answers and fetchAQI's promise settles
fetchAQIResponded ==
    /\ page = "index"
    /\ mainPhase = "extras"
    /\ extraCalls["aqi"].state = "pending"
    /\ \E r \in Responses, a \in AqiReadings \ {AqiNull} :
          extraCalls' = [extraCalls EXCEPT !["aqi"] = fetchAQI(r, a)]
    /\ UNCHANGED <<page, mainPhase, resultCard, summaryText, uvData>>
    /\ UNCHANGED <<scoreVars, compareVars, cacheVars, adviceVars,
                   verdictVars, gearVars,
                   browserVars>>

\* /api/uv answers and fetchUV's promise settles
fetchUVResponded ==
    /\ page = "index"
    /\ mainPhase = "extras"
    /\ extraCalls["uv"].state = "pending"
    /\ \E r \in Responses :
          extraCalls' = [extraCalls EXCEPT !["uv"] = fetchUV(r)]
    /\ UNCHANGED <<page, mainPhase, resultCard, summaryText, uvData>>
    /\ UNCHANGED <<scoreVars, compareVars, cacheVars, adviceVars,
                   verdictVars, gearVars,
                   browserVars>>

\* /ai answers and getSummary's promise settles
getSummaryResponded ==
    /\ page = "index"
    /\ mainPhase = "extras"
    /\ extraCalls["summary"].state = "pending"
    /\ \E r \in Responses :
          extraCalls' = [extraCalls EXCEPT !["summary"] = getSummary(r)]
    /\ UNCHANGED <<page, mainPhase, resultCard, summaryText, uvData>>
    /\ UNCHANGED <<scoreVars, compareVars, cacheVars, adviceVars,
                   verdictVars, gearVars,
                   browserVars>>

\* Promise.all has settled: renderExtras with the three results, or the
\* catch block; setLoading(false) changes nothing
processWeatherDataResumed ==
    /\ page = "index"
    /\ mainPhase = "extras"
    /\ anyRejected(extraCalls) \/ allFulfilled(extraCalls)
    /\ IF anyRejected(extraCalls)
       THEN UNCHANGED <<aqiData, extrasRendered, qualityScore, alerts,
                        summaryText, uvData>>
       ELSE /\ aqiData' = extraCalls["aqi"].value[1]
            /\ summaryText' = extraCalls["summary"].value[1]
            /\ uvData' = extraCalls["uv"].value[1]
            /\ extrasRendered' = TRUE
            /\ qualityScore' = scoreWeather(data)
            /\ alerts' = getSmartAlerts(data, extraCalls["aqi"].value[1],
                                        scoreWeather(data))
    /\ mainPhase' = "done"
    /\ UNCHANGED <<page, data, cardRendered, cardScore, resultCard,
                   extraCalls>>
    /\ UNCHANGED <<compareVars, cacheVars, adviceVars,
                   verdictVars, gearVars,
                   browserVars>>

\* runComparison up to its first await, or its return when a city is empty
runComparison ==
    /\ page = "compare"
    /\ comparePhase \in {"idle", "done"}
    /\ \E cityMissing \in BOOLEAN :
          IF cityMissing
          THEN /\ compareError' = "Please enter both city names."
               /\ UNCHANGED <<comparePhase, weatherCalls, aqiCalls,
                              compareResults>>
          ELSE /\ compareError' = "hidden"
               /\ compareResults' = "hidden"
               /\ weatherCalls' = [s \in Calls.sides |-> Promise.pending]
               /\ aqiCalls' = [s \in Calls.sides |-> Promise.none]
               /\ comparePhase' = "weather"
    /\ UNCHANGED cards
    /\ UNCHANGED <<mainVars, scoreVars, cacheVars, adviceVars,
                   verdictVars, gearVars,
                   browserVars>>

fetchWeatherResponded ==
    /\ page = "compare"
    /\ comparePhase = "weather"
    /\ \E s \in Calls.sides, r \in Responses, d \in FetchSnapshots :
          /\ weatherCalls[s].state = "pending"
          /\ weatherCalls' = [weatherCalls EXCEPT ![s] = fetchWeather(r, d)]
    /\ UNCHANGED <<comparePhase, aqiCalls, compareResults, compareError,
                   cards>>
    /\ UNCHANGED <<mainVars, scoreVars, cacheVars, adviceVars,
                   verdictVars, gearVars,
                   browserVars>>

\* the first Promise.all has settled: the catch block (a rejection, or a
\* body without coord) with showError(e.message || ...), or the two
\* fetchAQI calls
runComparisonAfterWeather ==
    /\ page = "compare"
    /\ comparePhase = "weather"
    /\ anyRejected(weatherCalls) \/ allFulfilled(weatherCalls)
    /\ IF \/ anyRejected(weatherCalls)
          \/ \E s \in Calls.sides : ~weatherCalls[s].value[1].hasCoord
       THEN /\ compareError' = "request failed"
            /\ comparePhase' = "done"
            /\ UNCHANGED aqiCalls
       ELSE /\ aqiCalls' = [s \in Calls.sides |-> Promise.pending]
            /\ comparePhase' = "aqi"
            /\ UNCHANGED compareError
    /\ UNCHANGED <<weatherCalls, compareResults, cards>>
    /\ UNCHANGED <<mainVars, scoreVars, cacheVars, adviceVars,
                   verdictVars, gearVars,
                   browserVars>>

fetchAQICompareResponded ==
    /\ page = "compare"
    /\ comparePhase = "aqi"
    /\ \E s \in Calls.sides, r \in Responses, a \in AqiReadings \ {AqiNull} :
          /\ aqiCalls[s].state = "pending"
          /\ aqiCalls' = [aqiCalls EXCEPT ![s] = fetchAQICompare(r, a)]
    /\ UNCHANGED <<comparePhase, weatherCalls, compareResults, compareError,
                   cards>>
    /\ UNCHANGED <<mainVars, scoreVars, cacheVars, adviceVars,
                   verdictVars, gearVars,
                   browserVars>>

\* the second Promise.all has settled: the cards and the results, or the
\* catch block
runComparisonAfterAqi ==
    /\ page = "compare"
    /\ comparePhase = "aqi"
    /\ anyRejected(aqiCalls) \/ allFulfilled(aqiCalls)
    /\ IF anyRejected(aqiCalls)
       THEN /\ compareError' = "request failed"
            /\ UNCHANGED <<compareResults, cards>>
       ELSE /\ cards' = [s \in Calls.sides |->
                           Card(weatherCalls[s].value[1].data,
                                aqiValOf(aqiCalls[s].value[1]))]
            /\ compareResults' = "shown"
            /\ UNCHANGED compareError
    /\ comparePhase' = "done"
    /\ UNCHANGED <<weatherCalls, aqiCalls>>
    /\ UNCHANGED <<mainVars, scoreVars, cacheVars, adviceVars,
                   verdictVars, gearVars,
                   browserVars>>

NextFetch ==
    \/ getWeather
    \/ weatherResponded
    \/ fetchAQIResponded
    \/ fetchUVResponded
    \/ getSummaryResponded
    \/ processWeatherDataResumed
    \/ runComparison
    \/ fetchWeatherResponded
    \/ runComparisonAfterWeather
    \/ fetchAQICompareResponded
    \/ runComparisonAfterAqi

SpecFetch == InitFetch /\ [][NextFetch]_vars

----------------------------------------------------------------------------
(* The verdict panel of the compare page: fetchVerdict shows the loading  *)
(* state, and the answer is rendered by renderVerdict or replaced by the  *)
(* notice that the verdict is unavailable                                 *)

InitVerdict ==
    /\ ScoreIdle
    /\ CacheIdle
    /\ AdviceIdle
    /\ FetchIdle
    /\ VerdictIdle
    /\ GearIdle
    /\ SuggestIdle
    /\ WorkerIdle
    /\ SearchIdle

\* up to the await: the loading state
fetchVerdict ==
    /\ verdictContent.view # "loading"
    /\ verdictContent' = VerdictView("loading", << >>, << >>, << >>, << >>)
    /\ verdictText' = << >>
    /\ UNCHANGED <<scoreVars, cacheVars, adviceVars, fetchVars, gearVars,
                   browserVars>>

\* result.verdict is truthy: renderVerdict(result.verdict, nameA, nameB)
renderVerdict ==
    /\ verdictContent.view = "loading"
    /\ \E text \in VerdictTexts :
          /\ verdictText' = text
          /\ verdictContent' = renderVerdictView(text)
    /\ UNCHANGED <<scoreVars, cacheVars, adviceVars, fetchVars, gearVars,
                   browserVars>>

\* the catch block: no verdict in the answer, or the fetch failed
verdictFailed ==
    /\ verdictContent.view = "loading"
    /\ verdictContent' =
           VerdictView("unavailable", << >>, << >>, << >>, << >>)
    /\ UNCHANGED verdictText
    /\ UNCHANGED <<scoreVars, cacheVars, adviceVars, fetchVars, gearVars,
                   browserVars>>

NextVerdict == fetchVerdict \/ renderVerdict \/ verdictFailed

SpecVerdict == InitVerdict /\ [][NextVerdict]_vars

----------------------------------------------------------------------------
(* The places endpoint: the client posts the readings of a search, the    *)
(* server answers with the gear list                                      *)

InitGear ==
    /\ ScoreIdle
    /\ CacheIdle
    /\ AdviceIdle
    /\ FetchIdle
    /\ VerdictIdle
    /\ GearIdle
    /\ SuggestIdle
    /\ WorkerIdle
    /\ SearchIdle

\* fetch('/api/places', { method: 'POST', body: ... }), up to the await
fetchPlaces ==
    /\ \E body \in PlacesBodies : placesRequest' = Some(body)
    /\ placesAnswered' = FALSE
    /\ gear' = << >>
    /\ UNCHANGED <<scoreVars, cacheVars, adviceVars, fetchVars, verdictVars,
                   browserVars>>

\* app.post('/api/places'): res.json({ places, gear })
apiPlaces ==
    /\ placesRequest # Null
    /\ ~placesAnswered
    /\ placesAnswered' = TRUE
    /\ gear' = gearOf(placesRequest[1])
    /\ UNCHANGED placesRequest
    /\ UNCHANGED <<scoreVars, cacheVars, adviceVars, fetchVars, verdictVars,
                   browserVars>>

\* the catch of fetchPlaces: the request failed, no gear is shown
placesFailed ==
    /\ placesRequest # Null
    /\ ~placesAnswered
    /\ placesRequest' = Null
    /\ UNCHANGED <<placesAnswered, gear>>
    /\ UNCHANGED <<scoreVars, cacheVars, adviceVars, fetchVars, verdictVars,
                   browserVars>>

NextGear == fetchPlaces \/ apiPlaces \/ placesFailed

SpecGear == InitGear /\ [][NextGear]_vars

----------------------------------------------------------------------------
(* Autosuggest: keystrokes, the debounce timer and fetchSuggestions       *)

InitSuggest ==
    /\ ScoreIdle
    /\ CacheIdle
    /\ AdviceIdle
    /\ FetchIdle
    /\ VerdictIdle
    /\ GearIdle
    /\ SuggestIdle
    /\ WorkerIdle
    /\ SearchIdle

\* time passes on the page, up to a millisecond after MaxPauses delays
pageClockAdvance ==
    /\ \E d \in {1, DebounceMs - 1, DebounceMs} :
          /\ pageClock + d \in {p * DebounceMs + j : p \in 0..MaxPauses,
                                                      j \in {0, 1}}
          /\ pageClock' = pageClock + d
    /\ UNCHANGED <<debounceTimer, timers, nextTimer, events, searching,
                   suggestionsHidden>>
    /\ UNCHANGED <<scoreVars, cacheVars, adviceVars, fetchVars, verdictVars,
                   gearVars, workerVars, searchVars>>

\* an input event of the city field
cityInputEvent ==
    /\ Len(events) < MaxEvents
    /\ \E value \in InputValues :
          LET val == trim(value)
              cleared == clearTimeout(timers, debounceTimer)
          IN  /\ events' = Append(events, [kind |-> "input", value |-> value,
                                           at |-> pageClock])
              /\ IF Len(val) < 3
                 THEN /\ timers' = cleared
                      /\ suggestionsHidden' = TRUE
                      /\ UNCHANGED <<debounceTimer, nextTimer>>
                 ELSE /\ timers' = cleared \cup
                                     {[id |-> nextTimer, val |-> val,
                                       due |-> pageClock + DebounceMs]}
                      /\ debounceTimer' = Some(nextTimer)
                      /\ nextTimer' = nextTimer + 1
                      /\ UNCHANGED suggestionsHidden
    /\ UNCHANGED <<pageClock, searching>>
    /\ UNCHANGED <<scoreVars, cacheVars, adviceVars, fetchVars, verdictVars,
                   gearVars, workerVars, searchVars>>

\* a timer is due and runs its callback: fetchSuggestions(val), up to the
\* await of the fetch
debounceTimerFires ==
    /\ Len(events) < MaxEvents
    /\ \E t \in timers :
          /\ t.due <= pageClock
          /\ timers' = timers \ {t}
          /\ events' = Append(events, [kind |-> "fetch", value |-> t.val,
                                       at |-> pageClock])
    /\ searching' = searching + 1
    /\ UNCHANGED <<debounceTimer, nextTimer, pageClock, suggestionsHidden>>
    /\ UNCHANGED <<scoreVars, cacheVars, adviceVars, fetchVars, verdictVars,
                   gearVars, workerVars, searchVars>>

\* /api/search answers: a list is rendered and shown, an empty list hides
\* the suggestions, a failure is logged
suggestionsAnswered ==
    /\ searching > 0
    /\ searching' = searching - 1
    /\ \E outcome \in {"list", "empty", "failed"} :
          suggestionsHidden' = CASE outcome = "list" -> FALSE
                                 [] outcome = "empty" -> TRUE
                                 [] OTHER -> suggestionsHidden
    /\ UNCHANGED <<debounceTimer, timers, nextTimer, pageClock, events>>
    /\ UNCHANGED <<scoreVars, cacheVars, adviceVars, fetchVars, verdictVars,
                   gearVars, workerVars, searchVars>>

NextSuggest ==
    \/ pageClockAdvance
    \/ cityInputEvent
    \/ debounceTimerFires
    \/ suggestionsAnswered

SpecSuggest == InitSuggest /\ [][NextSuggest]_vars

----------------------------------------------------------------------------
(* Service worker: fetch events, cache.match, the network and cache.put   *)

InitWorker ==
    /\ ScoreIdle
    /\ CacheIdle
    /\ AdviceIdle
    /\ FetchIdle
    /\ VerdictIdle
    /\ GearIdle
    /\ SuggestIdle
    /\ WorkerIdle
    /\ SearchIdle

\* a fetch event: an API request goes to the network at once, any other
\* request waits for caches.open and cache.match
fetchEvent ==
    /\ Len(fetchEvents) < MaxFetchEvents
    /\ \E u \in {Url.search, Url.style, Url.ai} :
          fetchEvents' = Append(fetchEvents,
              [url |-> u,
               phase |-> IF isApiRequest(u) THEN "fetching" ELSE "matching",
               matched |-> Null, net |-> Null, answer |-> Null])
    /\ UNCHANGED assetCache
    /\ UNCHANGED <<scoreVars, cacheVars, adviceVars, fetchVars, verdictVars,
                   gearVars, suggestVars, searchVars>>

\* cache.match(event.request) resolves: the fetch is issued, and a cached
\* response answers the page at once
cacheMatched ==
    /\ \E i \in DOMAIN fetchEvents :
          /\ fetchEvents[i].phase = "matching"
          /\ LET u == fetchEvents[i].url
                 response == IF u \in DOMAIN assetCache
                             THEN Some(assetCache[u]) ELSE Null
             IN  fetchEvents' =
                    [fetchEvents EXCEPT ![i].phase = "fetching",
                                        ![i].matched = response,
                                        ![i].answer = response]
    /\ UNCHANGED assetCache
    /\ UNCHANGED <<scoreVars, cacheVars, adviceVars, fetchVars, verdictVars,
                   gearVars, suggestVars, searchVars>>

\* fetch(event.request) resolves: an API response is handed to the page, any
\* other response is put in the cache and answers the page if the cache
\* did not
networkResponded ==
    /\ \E i \in DOMAIN fetchEvents, body \in NetworkBodies :
          /\ fetchEvents[i].phase = "fetching"
          /\ LET u == fetchEvents[i].url
             IN  /\ fetchEvents' =
                       [fetchEvents EXCEPT
                           ![i].phase = "done",
                           ![i].net = Some(body),
                           ![i].answer = respondWith(fetchEvents[i].matched,
                                                     Some(body))]
                 /\ assetCache' = IF isApiRequest(u) THEN assetCache
                                  ELSE mapSet(assetCache, u, body)
    /\ UNCHANGED <<scoreVars, cacheVars, adviceVars, fetchVars, verdictVars,
                   gearVars, suggestVars, searchVars>>

\* fetch(event.request) rejects: nothing is put in the cache, and the page
\* gets a network error unless the cache answered
networkFailed ==
    /\ \E i \in DOMAIN fetchEvents :
          /\ fetchEvents[i].phase = "fetching"
          /\ fetchEvents' =
                [fetchEvents EXCEPT
                    ![i].phase = "done",
                    ![i].net = Some("network error"),
                    ![i].answer = respondWith(fetchEvents[i].matched,
                                              Some("network error"))]
    /\ UNCHANGED assetCache
    /\ UNCHANGED <<scoreVars, cacheVars, adviceVars, fetchVars, verdictVars,
                   gearVars, suggestVars, searchVars>>

NextWorker ==
    \/ fetchEvent
    \/ cacheMatched
    \/ networkResponded
    \/ networkFailed

SpecWorker == InitWorker /\ [][NextWorker]_vars

----------------------------------------------------------------------------
(* Main page: searches that overlap. getWeather and getWeatherByCoords    *)
(* start a search without waiting for the one under way                   *)

InitSearch ==
    /\ ScoreIdle
    /\ CacheIdle
    /\ AdviceIdle
    /\ FetchIdle
    /\ VerdictIdle
    /\ GearIdle
    /\ SuggestIdle
    /\ WorkerIdle
    /\ SearchIdle

\* getWeather(cityName) or getWeatherByCoords(lat, lon) up to the await of
\* fetchAPI: setLoading(true), resetUI(); the city is the one the weather
\* API will name
searchStarted ==
    /\ Len(searches) < MaxSearches
    /\ \E city \in {City.paris, City.rome} :
          searches' = Append(searches, [city |-> city, phase |-> "weather"])
    /\ mainCard' = "loading"
    /\ UNCHANGED <<currentCity, weatherData, forecastRequests>>
    /\ UNCHANGED <<scoreVars, cacheVars, adviceVars, fetchVars, verdictVars,
                   gearVars, suggestVars, workerVars>>

\* /api/weather answers a search: processWeatherData(data) up to its await
\* (state.weatherData, state.currentCity, renderWeather), or showError
searchWeatherAnswered ==
    /\ \E i \in DOMAIN searches, ok \in BOOLEAN :
          /\ searches[i].phase = "weather"
          /\ IF ok
             THEN LET d == [name |-> searches[i].city, search |-> i]
                  IN  /\ weatherData' = Some(d)
                      /\ currentCity' = d.name
                      /\ mainCard' = "weather of " \o ToString(i)
                      /\ searches' = [searches EXCEPT ![i].phase = "extras"]
             ELSE /\ mainCard' = "error"
                  /\ searches' = [searches EXCEPT ![i].phase = "failed"]
                  /\ UNCHANGED <<currentCity, weatherData>>
    /\ UNCHANGED forecastRequests
    /\ UNCHANGED <<scoreVars, cacheVars, adviceVars, fetchVars, verdictVars,
                   gearVars, suggestVars, workerVars>>

\* the Promise.all of a search settles: renderExtras and showPlanner(), which
\* asks for the forecast of state.currentCity, or the catch block
searchExtrasSettled ==
    /\ \E i \in DOMAIN searches, ok \in BOOLEAN :
          /\ searches[i].phase = "extras"
          /\ searches' = [searches EXCEPT ![i].phase = "done"]
          /\ forecastRequests' =
                IF ok
                THEN Append(forecastRequests,
                            [search |-> i, city |-> currentCity])
                ELSE forecastRequests
    /\ UNCHANGED <<currentCity, weatherData, mainCard>>
    /\ UNCHANGED <<scoreVars, cacheVars, adviceVars, fetchVars, verdictVars,
                   gearVars, suggestVars, workerVars>>

NextSearch ==
    \/ searchStarted
    \/ searchWeatherAnswered
    \/ searchExtrasSettled

SpecSearch == InitSearch /\ [][NextSearch]_vars

----------------------------------------------------------------------------
(* Claims about the AI response cache                                       *)

fifteenMinutes == 15 * 60 * 1000

CacheKeys ==
    {travelKey(c) : c \in TravelCities \ {<<>>}}
        \cup {compareKey(p[1], p[2]) : p \in ComparePairs}

\* C2: a getCached returns the stored value exactly when an entry for the
\* key exists and its age, now - ts, is at most 15 minutes (age equal to the
\* TTL is still returned), and null otherwise; a get that directly follows
\* the set of the same key returns the value set.
C2_GetReturnsEntryIffFresh ==
    [][ /\ lastStep'.op = "get" =>
              LET k == lastStep'.key
              IN  lastStep'.ret =
                     IF k \in DOMAIN aiCache
                           /\ now - aiCache[k].ts <= fifteenMinutes
                     THEN Some(aiCache[k].data)
                     ELSE Null
        /\ (lastStep.op = "set" /\ lastStep'.op = "get"
               /\ lastStep'.key = lastStep.key)
              => lastStep'.ret = lastStep.ret
      ]_vars

\* a get has returned an entry whose age is exactly the TTL
C2_Witness ==
    /\ lastStep.op = "get"
    /\ lastStep.ret # Null
    /\ lastStep.key \in DOMAIN aiCache
    /\ now - aiCache[lastStep.key].ts = CACHE_TTL
    /\ lastStep.ret = Some(aiCache[lastStep.key].data)

isExpired(k) == k \in DOMAIN aiCache /\ now - aiCache[k].ts > fifteenMinutes

\* C3: an entry leaves the cache only in a getCached of its key that finds
\* it expired, and that first such getCached does remove it and nothing
\* else; once the key is absent every getCached of it returns null, whatever
\* the clock shows, and only a setCache of that key brings an entry back.
C3_LazyExpiryOnRead ==
    [][ \A k \in CacheKeys :
          /\ (k \in DOMAIN aiCache /\ k \notin DOMAIN aiCache')
                => /\ lastStep'.op = "get" /\ lastStep'.key = k
                   /\ lastStep'.ret = Null
                   /\ isExpired(k)
          /\ (isExpired(k) /\ lastStep'.op = "get" /\ lastStep'.key = k)
                => /\ k \notin DOMAIN aiCache'
                   /\ lastStep'.ret = Null
                   /\ \A j \in DOMAIN aiCache \ {k} :
                         j \in DOMAIN aiCache' /\ aiCache'[j] = aiCache[j]
          /\ (k \notin DOMAIN aiCache /\ lastStep'.op = "get"
                 /\ lastStep'.key = k)
                => lastStep'.ret = Null /\ k \notin DOMAIN aiCache'
          /\ (k \notin DOMAIN aiCache /\ k \in DOMAIN aiCache')
                => lastStep'.op = "set" /\ lastStep'.key = k
      ]_vars

\* a getCached has just deleted an expired entry while the entry of another
\* key stays cached
C3_Witness ==
    /\ lastStep.op = "get"
    /\ lastStep.evicted
    /\ lastStep.ret = Null
    /\ lastStep.key \notin DOMAIN aiCache
    /\ DOMAIN aiCache # {}


\* C11: under any interleaving of requests on the same key, every setCache
\* writes the whole entry (the text of the request that makes the call, and
\* the time of the call) over whatever entry was there and touches no other
\* key, no other step changes or adds an entry, and a getCached that
\* returns a value returns the whole text of the entry there: the cache
\* holds what the last setCache of the key wrote, never a mix.
C11_LastWriterWins ==
    [][ /\ lastStep'.op = "set" =>
              LET k == lastStep'.key
              IN  /\ DOMAIN aiCache' = DOMAIN aiCache \cup {k}
                  /\ aiCache'[k] = [data |-> lastStep'.ret[1], ts |-> now]
                  /\ \A j \in DOMAIN aiCache \ {k} : aiCache'[j] = aiCache[j]
        /\ lastStep'.op # "set" =>
              \A j \in DOMAIN aiCache' :
                  j \in DOMAIN aiCache /\ aiCache'[j] = aiCache[j]
        /\ (lastStep'.op = "get" /\ lastStep'.ret # Null) =>
              /\ lastStep'.key \in DOMAIN aiCache
              /\ lastStep'.ret = Some(aiCache[lastStep'.key].data)
              /\ lastStep'.ret[1] \in GeminiTexts
      ]_vars

\* two requests missed on the same key; one has cached its text, the other
\* still awaits callGemini and will write over it
C11_Witness ==
    /\ lastStep.op = "set"
    /\ lastStep.key = travelKey(City.paris)
    /\ aiCache[lastStep.key].data = lastStep.ret[1]
    /\ \E i \in DOMAIN inFlight : inFlight[i].key = lastStep.key


\* C22: setCache(key, value) replaces the entry of key, whether there is
\* one or not, by the new value with the timestamp of the set, and leaves
\* the entries of the other keys as they are; the 15 minutes count from the
\* latest set (a get up to 15 minutes after it returns the latest value, a
\* later one nothing), and the get that follows a set of its key returns
\* the value set.
C22_SetRestartsLifetime ==
    [][ /\ lastStep'.op = "set" =>
              LET k == lastStep'.key
                  text == lastStep'.ret[1]
              IN  /\ aiCache'[k] = [data |-> text, ts |-> now']
                  /\ \A j \in DOMAIN aiCache \ {k} :
                        j \in DOMAIN aiCache' /\ aiCache'[j] = aiCache[j]
                  /\ \A t \in ClockValues :
                        t >= now' =>
                            getCached(aiCache', k, t).ret
                               = (IF t - now' <= CACHE_TTL THEN Some(text)
                                  ELSE Null)
        /\ (lastStep.op = "set" /\ lastStep'.op = "get"
               /\ lastStep'.key = lastStep.key)
              => lastStep'.ret = lastStep.ret
      ]_vars

\* an entry set at time 0 is written over 15 minutes later with another
\* text: the entry is the new text with the new time
C22_Witness ==
    /\ lastStep.op = "set"
    /\ lastStep.replaced # Null
    /\ lastStep.replaced[1].ts = 0
    /\ now = CACHE_TTL
    /\ lastStep.replaced[1].data # lastStep.ret[1]
    /\ aiCache[lastStep.key] = [data |-> lastStep.ret[1], ts |-> CACHE_TTL]


\* the two names of a compare request, lower-cased
lowerPair(req) == <<toLowerCase(req[1]), toLowerCase(req[2])>>
swapped(p) == <<p[2], p[1]>>

\* C23: the keys of the compare verdicts depend on the order. For two
\* different lower-cased city names A and B the requests (A,B) and (B,A)
\* have different keys, and a verdict cached for the request (A,B) is never
\* returned for the request (B,A).
C23_CompareKeysOrderSensitive ==
    (lastStep.op = "get" /\ lastStep.ret # Null /\ Len(lastStep.req) = 2)
        => ~(/\ lowerPair(lastStep.req) # swapped(lowerPair(lastStep.req))
             /\ lowerPair(writer[lastStep.key])
                   = swapped(lowerPair(lastStep.req)))

called == Len(inFlight') = Len(inFlight) + 1
settled == Len(inFlight') = Len(inFlight) - 1
written ==
    \E k \in DOMAIN aiCache' : k \notin DOMAIN aiCache \/ aiCache'[k] # aiCache[k]

\* C24: in the two cached endpoints callGemini is called exactly when the
\* lookup of the request's key misses (no entry, or an expired one), and
\* the cache is written exactly when that call succeeds: a hit answers 200
\* with the cached text and calls nothing, a failed call answers 500 and
\* leaves the cache as it was.
C24_CallIffMissWriteIffSuccess ==
    [][ /\ lastStep'.op = "get" =>
              LET k == lastStep'.key
                  hit == k \in DOMAIN aiCache /\ ~isExpired(k)
              IN  /\ hit => /\ ~called /\ inFlight' = inFlight
                            /\ lastStep'.status = 200
                            /\ lastStep'.ret = Some(aiCache[k].data)
                            /\ aiCache' = aiCache
                  /\ ~hit => /\ called
                             /\ SubSeq(inFlight', 1, Len(inFlight)) = inFlight
                             /\ inFlight'[Len(inFlight')].key = k
                             /\ inFlight'[Len(inFlight')].req = lastStep'.req
                             /\ lastStep'.status = 0
                             /\ ~written
        /\ called => lastStep'.op = "get" /\ lastStep'.ret = Null
        /\ written => lastStep'.op = "set" /\ settled
        /\ lastStep'.op = "set" =>
              /\ settled
              /\ lastStep'.status = 200
              /\ aiCache'[lastStep'.key]
                    = [data |-> lastStep'.ret[1], ts |-> now]
        /\ lastStep'.status = 500 => settled /\ aiCache' = aiCache
        /\ settled => lastStep'.op = "set" \/ lastStep'.status = 500
        /\ lastStep'.status = 400 => ~called /\ aiCache' = aiCache
      ]_vars

\* a request has been answered from the cache, with no call added, while
\* the call made for another key is still awaited
C24_Witness ==
    /\ lastStep.op = "get" /\ lastStep.status = 200
    /\ lastStep.key \in DOMAIN aiCache
    /\ lastStep.ret = Some(aiCache[lastStep.key].data)
    /\ Len(inFlight) = 1 /\ inFlight[1].key # lastStep.key

----------------------------------------------------------------------------
(* Claims about the comfort score                                           *)

\* C1: every score that either page computes, for every temperature,
\* humidity and primary condition, lies in the closed range [0,10].
C1_ScoreInRange ==
    /\ extrasRendered => qualityScore \in 0..10
    /\ cardRendered => cardScore \in 0..10

\* a snapshot whose unclamped sum is below 0 (freezing, humid, rain) has
\* been scored by both pages
C1_Witness ==
    /\ extrasRendered /\ cardRendered
    /\ data.main.temp < 0 /\ data.main.humidity > 80
    /\ data.weather[1].main = Main.rain
    /\ qualityScore = 0 /\ cardScore = 0

\* the rule table of the specification, one operator per rule
tempBonus(t) ==
    IF 18 * Scale <= t /\ t <= 26 * Scale THEN 3
    ELSE IF 10 * Scale <= t /\ t < 18 * Scale THEN 1
    ELSE IF 26 * Scale < t /\ t <= 32 * Scale THEN 1
    ELSE 0
humidityBonus(h) == IF 30 <= h /\ h <= 60 THEN 2 ELSE 0
tempPenalty(t) == IF t > 35 * Scale \/ t < 0 THEN 3 ELSE 0
humidityPenalty(h) == IF h > 80 THEN 1 ELSE 0
\* a Rain/Snow/Thunder condition, as the source spells them
conditionPenalty(c) ==
    IF \E w \in {Main.rain, Main.snow, Main.thunder} : includes(c, w) THEN 2 ELSE 0
clamp(x) == IF x < 0 THEN 0 ELSE IF x > 10 THEN 10 ELSE x
ruleSum(d) ==
    5 + tempBonus(d.main.temp) + humidityBonus(d.main.humidity)
      - tempPenalty(d.main.temp) - humidityPenalty(d.main.humidity)
      - conditionPenalty(d.weather[1].main)

\* C6: the score is the clamp to [0,10] of 5 plus the temperature bonus (one
\* tier at most) plus the humidity bonus minus the temperature, humidity and
\* condition penalties: every applicable rule applied, clamped once.
C6_ScoreIsClampedRuleSum ==
    /\ extrasRendered => qualityScore = clamp(ruleSum(data))
    /\ cardRendered => cardScore = clamp(ruleSum(data))

\* a bonus, a penalty and the condition penalty apply together: 17.5 degrees
\* (the lower tier, just under 18), humidity above 80, snow
C6_Witness ==
    /\ extrasRendered /\ cardRendered
    /\ data.main.temp = 18 * Scale - 1
    /\ data.main.humidity = 81
    /\ data.weather[1].main = Main.snow
    /\ qualityScore = 3

\* the score the snapshot would get without any condition penalty
scoreBeforeCondition(d) ==
    5 + tempBonus(d.main.temp) + humidityBonus(d.main.humidity)
      - tempPenalty(d.main.temp) - humidityPenalty(d.main.humidity)

\* rain, snow or thunder in any letter case
isWetCondition(c) ==
    \E w \in {Main.rain, Main.snow, Main.thunder} : includesIgnoreCase(c, w)

\* C7: the condition penalty is a case-insensitive substring match: 'Rain',
\* 'rain' and 'RAIN' (likewise Snow, Thunder) all lower the score by 2.
C7_PenaltyIgnoresCase ==
    (extrasRendered /\ isWetCondition(data.weather[1].main))
        => qualityScore = clamp(scoreBeforeCondition(data) - 2)

withCondition(d, c) == [d EXCEPT !.weather = <<[main |-> c]>>]

\* C8: at the same temperature and humidity the score under rain is strictly
\* lower than the score under a clear sky, also where the rain score is
\* clamped at 0.
C8_RainStrictlyLower ==
    /\ (extrasRendered /\ data.weather[1].main = Main.rain)
           => qualityScore < scoreWeather(withCondition(data, Main.clear))
    /\ (cardRendered /\ data.weather[1].main = Main.rain)
           => cardScore < scoreWeatherCompare(withCondition(data, Main.clear))

\* rain at a temperature and humidity where the sum goes below 0 and is
\* clamped: the clear score is 1, the rain score 0
C8_Witness ==
    /\ extrasRendered /\ cardRendered
    /\ data.weather[1].main = Main.rain
    /\ data.main.temp > 35 * Scale /\ data.main.humidity > 80
    /\ qualityScore = 0
    /\ scoreWeather(withCondition(data, Main.clear)) = 1

----------------------------------------------------------------------------
(* Claims about the smart alerts                                            *)

\* the rules in their fixed order, each with its trigger
alertRules(d, a, score) ==
    LET t == d.main.temp
        w == d.wind.speed
        c == d.weather[1].main
    IN <<
      [msg |-> Msg.extremeHeat, on |-> t > 40 * Scale],
      [msg |-> Msg.highHeat,    on |-> t > 35 * Scale /\ ~(t > 40 * Scale)],
      [msg |-> Msg.severeCold,  on |-> t < (-5) * Scale],
      [msg |-> Msg.cold,        on |-> t < 5 * Scale /\ ~(t < (-5) * Scale)],
      [msg |-> Msg.wind,        on |-> w > 15 * Scale],
      [msg |-> Msg.humidity,    on |-> d.main.humidity > 85],
      [msg |-> Msg.thunder,     on |-> includesIgnoreCase(c, Main.thunder)],
      [msg |-> Msg.snow,        on |-> includesIgnoreCase(c, Main.snow)],
      [msg |-> Msg.rainWind,    on |-> includesIgnoreCase(c, Main.rain) /\ w > 10 * Scale],
      [msg |-> Msg.aqiPoor,     on |-> a.kind = "list" /\ a.aqi >= 4],
      [msg |-> Msg.aqiHazard,   on |-> a.kind = "list" /\ a.aqi >= 5],
      [msg |-> Msg.challenging, on |-> score < 3] >>

isTriggered(r) == r.on

triggeredMessages(d, a, score) ==
    LET hit == SelectSeq(alertRules(d, a, score), isTriggered)
    IN  [i \in DOMAIN hit |-> hit[i].msg]

isExampleSnapshot ==
    /\ data.main.temp = 45 * Scale
    /\ data.wind.speed = 20 * Scale
    /\ data.main.humidity = 90
    /\ data.weather[1].main = Main.thunderstorm
    /\ aqiData = AqiReading(5)

\* C9: the alert list is exactly the messages of the triggered rules in the
\* fixed rule order, a rule being suppressed only by the first branch of its
\* own else-if pair; the snapshot T=45, wind=20, humidity=90, Thunderstorm,
\* AQI=5 gets at least 6 distinct alerts.
C9_AlertsAreTriggeredRulesInOrder ==
    extrasRendered =>
        /\ alerts = triggeredMessages(data, aqiData, qualityScore)
        /\ isExampleSnapshot =>
              Cardinality({alerts[i] : i \in DOMAIN alerts}) >= 6

\* the example snapshot has been rendered, heat and wind both alerted
C9_Witness ==
    /\ extrasRendered
    /\ isExampleSnapshot
    /\ alerts[1] = Msg.extremeHeat
    /\ alerts[2] = Msg.wind
    /\ Len(alerts) = 7


\* how often a message stands in the alert list
timesAlerted(msg) == Cardinality({i \in DOMAIN alerts : alerts[i] = msg})
without(seq, msg) == SelectSeq(seq, LAMBDA x : x # msg)
\* a condition that says rain and neither thunder nor snow
rainOnly(c) ==
    /\ includesIgnoreCase(c, Main.rain)
    /\ ~includesIgnoreCase(c, Main.thunder)
    /\ ~includesIgnoreCase(c, Main.snow)

\* C17: rain alerts only together with wind. Under a condition containing
\* 'Rain', wind <= 10 adds no alert for the rain and wind > 10 adds exactly
\* one, the combined 'Heavy rain with wind' alert; no alert is added for
\* rain alone: apart from that one alert the list is the list of the same
\* readings and score under a clear sky.
C17_RainAlertsOnlyWithWind ==
    (extrasRendered /\ includesIgnoreCase(data.weather[1].main, Main.rain)) =>
        /\ timesAlerted(Msg.rainWind)
              = (IF data.wind.speed > 10 * Scale THEN 1 ELSE 0)
        /\ rainOnly(data.weather[1].main) =>
              without(alerts, Msg.rainWind)
                 = getSmartAlerts(withCondition(data, Main.clear), aqiData,
                                  qualityScore)

\* rain with wind of exactly 10: no alert at all
C17_Witness ==
    /\ extrasRendered
    /\ data.weather[1].main = Main.rain
    /\ data.wind.speed = 10 * Scale
    /\ data.main.temp = 22 * Scale
    /\ alerts = << >>

\* the two alerts of the air quality, as they stand in the list
aqiAlerts ==
    SelectSeq(alerts, LAMBDA x : x \in {Msg.aqiPoor, Msg.aqiHazard})

\* C18: an AQI of 4 adds only the 'poor air quality' alert, an AQI of 5 the
\* 'poor' alert followed by the 'hazardous' alert, an AQI of 3 or less
\* neither; with no reading (null, or an answer without a list) the rules of
\* the air quality are skipped and the other rules are evaluated all the
\* same: the rest of the list is the list made without a reading.
C18_AqiAlerts ==
    extrasRendered =>
        /\ aqiAlerts =
              (IF aqiData.kind # "list" \/ aqiData.aqi <= 3 THEN << >>
               ELSE IF aqiData.aqi = 4 THEN <<Msg.aqiPoor>>
               ELSE <<Msg.aqiPoor, Msg.aqiHazard>>)
        /\ without(without(alerts, Msg.aqiPoor), Msg.aqiHazard)
              = getSmartAlerts(data, AqiNull, qualityScore)

\* the fetch of the air quality failed, and the wind still alerts
C18_Witness ==
    /\ extrasRendered
    /\ aqiData = AqiNull
    /\ alerts = <<Msg.wind>>


HeatAlerts == {Msg.extremeHeat, Msg.highHeat}
ColdAlerts == {Msg.severeCold, Msg.cold}
alerted(S) == {i \in DOMAIN alerts : alerts[i] \in S}
noRuleTriggers ==
    /\ data.main.temp <= 35 * Scale
    /\ data.main.temp >= 5 * Scale
    /\ data.wind.speed <= 15 * Scale
    /\ data.main.humidity <= 85
    /\ \A w \in {Main.thunder, Main.snow} : ~includesIgnoreCase(data.weather[1].main, w)
    /\ ~(includesIgnoreCase(data.weather[1].main, Main.rain)
            /\ data.wind.speed > 10 * Scale)
    /\ aqiData.kind = "list" => aqiData.aqi < 4
    /\ qualityScore >= 3

\* C19: for every input the alert list holds no message twice, at most one
\* of the two heat alerts, at most one of the two cold alerts, never a heat
\* alert together with a cold alert, and it is empty when no rule triggers.
C19_AlertsDisjoint ==
    extrasRendered =>
        /\ \A i, j \in DOMAIN alerts : alerts[i] = alerts[j] => i = j
        /\ Cardinality(alerted(HeatAlerts)) <= 1
        /\ Cardinality(alerted(ColdAlerts)) <= 1
        /\ alerted(HeatAlerts) = {} \/ alerted(ColdAlerts) = {}
        /\ noRuleTriggers => alerts = << >>

\* severe cold at -5.5 degrees: the one cold alert, and no advisory with it
C19_Witness ==
    /\ extrasRendered
    /\ data.main.temp = (-5) * Scale - 1
    /\ alerted(ColdAlerts) = {1}
    /\ alerts[1] = Msg.severeCold
    /\ Len(alerts) >= 2

----------------------------------------------------------------------------
(* Claims on the travel advice parser *)

\* The lines of the text rendered, trimmed.
textLines == split(adviceText, "\n")
trimmedLine(i) == trim(textLines[i])
NonBlank == {i \in DOMAIN textLines : trimmedLine(i) # << >>}

\* A label line read from its colon: what stands before the first colon
\* is, blanks aside and in any letter case, one of the five keys; <rest> is
\* what follows the colon on that line, blanks aside: the pattern's dot
\* stops at a line break character, so a carriage return inside the line
\* ends <rest>.
firstColon(t) == setMin({c \in DOMAIN t : t[c] = ":"})
hasLabel(t) ==
    /\ \E c \in DOMAIN t : t[c] = ":"
    /\ toUpperCase(trim(SubSeq(t, 1, firstColon(t) - 1))) \in SectionKeys
labelKey(t) == toUpperCase(trim(SubSeq(t, 1, firstColon(t) - 1)))
upToLineBreak(t) ==
    LET breaks == {i \in DOMAIN t : t[i] \in Chars.lineTerminators}
    IN  IF breaks = {} THEN t ELSE SubSeq(t, 1, setMin(breaks) - 1)
labelRest(t) == upToLineBreak(trim(SubSeq(t, firstColon(t) + 1, Len(t))))

LabelLines == {i \in NonBlank : hasLabel(trimmedLine(i))}
labelLinesOf(K) == {i \in LabelLines : labelKey(trimmedLine(i)) = K}

\* the non-label lines whose nearest preceding label line is line j
contentLinesOf(j) ==
    {i \in NonBlank \ LabelLines :
        /\ i > j
        /\ \A k \in LabelLines : k <= j \/ k > i}

RECURSIVE trimmedLinesOf(_)
\* the lines of a set of line numbers, trimmed, in the order of the text
trimmedLinesOf(S) ==
    IF S = {} THEN << >>
    ELSE <<trimmedLine(setMin(S))>> \o trimmedLinesOf(S \ {setMin(S)})

\* what the claim says section K holds when the last label line of K is j
sectionContent(j) ==
    (IF labelRest(trimmedLine(j)) # << >>
     THEN <<labelRest(trimmedLine(j))>> ELSE << >>)
        \o trimmedLinesOf(contentLinesOf(j))

\* C4: the advice parser is a two-state line scanner. Of the non-blank
\* lines in order, a label line '<KEY>: <rest>' with KEY one of PLACES,
\* NEARBY, WEAR, EAT, ALERT in any letter case makes KEY, upper-cased, the
\* current section and starts it with <rest> when <rest> is non-empty and
\* empty otherwise; a non-label line is appended, trimmed, to the current
\* section, and dropped when no label came before it. So the sections are
\* exactly the keys that have a label line, and each holds the <rest> of
\* its last label line followed by the non-label lines whose nearest
\* preceding label line is that one.
C4_TwoStateLineScanner ==
    advisorRendered =>
        /\ DOMAIN sections = {K \in SectionKeys : labelLinesOf(K) # {}}
        /\ \A K \in DOMAIN sections :
              sections[K] = sectionContent(setMax(labelLinesOf(K)))

\* a line before any label is dropped, a label in lower case opens WEAR
\* with its <rest>, and the line after it is appended trimmed
C4_Witness ==
    /\ advisorRendered
    /\ adviceText = join(<<SampleLines.notLabel, SampleLines.wearLower, SampleLines.content>>, <<"\n">>)
    /\ sections = (Key.WEAR :> <<<<"x", "*">>, <<"y", " ", "z">>>>)

\* C5: parsing never raises an error, whatever the text. A text with no
\* label line yields empty PLACES and NEARBY lists and empty WEAR, EAT and
\* ALERT strings, and the panel shows the 'No travel advice available'
\* placeholder; every text rendered leaves the panel with its blocks or
\* with the placeholder, never with the loading state or the retry card.
C5_NoLabelsGivesPlaceholder ==
    advisorRendered =>
        /\ advisorHtml \notin {<< >>, Panel.loading, Panel.retryCard}
        /\ LabelLines = {} =>
              /\ places = << >>
              /\ nearby = << >>
              /\ wear = << >>
              /\ eat = << >>
              /\ alert = << >>
              /\ advisorHtml = <<"No travel advice available.">>

\* three non-blank lines, among them a numbered item, and no label
C5_Witness ==
    /\ advisorRendered
    /\ adviceText = join(<<SampleLines.item, SampleLines.content, SampleLines.notLabel>>, <<"\n">>)
    /\ sections = << >>
    /\ advisorHtml = <<"No travel advice available.">>


\* C13: parsePlaces never emits an entry whose name is the empty string. A
\* PLACES or NEARBY line that is empty once its leading 'N.' and its
\* asterisks are removed is dropped, also when the line has the form
\* '<number>. <name> - <description>' with a name made of asterisks only.
C13_NoEmptyPlaceName ==
    advisorRendered =>
        /\ \A i \in DOMAIN places : places[i].name # << >>
        /\ \A i \in DOMAIN nearby : nearby[i].name # << >>

\* the strings of the example answer
ExampleParsed ==
    [places |-> <<[name |-> <<"E","i","f","f","e","l"," ","T","o","w","e","r">>,
                   desc |-> <<"I","c","o","n","i","c"," ",
                              "l","a","n","d","m","a","r","k">>]>>,
     nearby |-> <<[name |-> <<"V","e","r","s","a","i","l","l","e","s">>,
                   desc |-> <<"2","0","k","m",","," ","r","o","y","a","l"," ",
                              "p","a","l","a","c","e">>]>>,
     wear |-> <<"L","i","g","h","t"," ","j","a","c","k","e","t">>,
     eat |-> <<"C","r","o","i","s","s","a","n","t"," ","a","t"," ","a"," ",
               "c","a","f","e">>,
     alert |-> <<"N","o","n","e">>]

\* what renderTravelAdvice has parsed
parsedAdvice ==
    [places |-> places, nearby |-> nearby, wear |-> wear, eat |-> eat,
     alert |-> alert]

\* C14: a text in the format asked for round-trips. PLACES and NEARBY with
\* numbered lines '<n>. <name> - <description>' and one-line WEAR, EAT and
\* ALERT sections parse to the (name, description) pairs in their order and
\* to the free texts, exactly as written; the example of the Eiffel Tower
\* is such a text and parses to its five values.
C14_FormatRoundTrips ==
    /\ SampleTexts.example = formatAdvice(ExampleParsed, FALSE)
    /\ advisorRendered =>
          \A p \in FormatValues \cup {ExampleParsed} : \A gap \in BOOLEAN :
              adviceText = formatAdvice(p, gap) => parsedAdvice = p

\* the lines of a free-text section joined by one blank, asterisks removed
joinedLines(K) == removeAsterisks(join(sectionOrEmpty(sections, K), <<" ">>))
FreeTextValue == (Key.WEAR :> wear) @@ (Key.EAT :> eat) @@ (Key.ALERT :> alert)

\* C15 as stated: the value of WEAR, EAT and ALERT is the content lines
\* accumulated for the key, joined with exactly one space, with the
\* asterisks removed, and the empty string for a key that never appears.
C15_FreeTextIsJoinedLines ==
    advisorRendered =>
        \A K \in {Key.WEAR, Key.EAT, Key.ALERT} : FreeTextValue[K] = joinedLines(K)

\* C15, amended: the value of WEAR, EAT and ALERT is the content lines
\* accumulated for the key, joined with exactly one space, with the
\* asterisks removed and the result trimmed of the white space at its two
\* ends; a key that never appears yields the empty string.
C15_FreeTextIsJoinedLinesTrimmed ==
    advisorRendered =>
        \A K \in {Key.WEAR, Key.EAT, Key.ALERT} :
            /\ FreeTextValue[K] = trim(joinedLines(K))
            /\ K \notin DOMAIN sections => FreeTextValue[K] = << >>

\* two bullet lines of WEAR are joined, their asterisks and the blank left
\* at the front removed, an EAT of asterisks only is empty, and the answer
\* has sections that did not appear
C15_Witness ==
    /\ advisorRendered
    /\ adviceText = SampleTexts.bullets
    /\ sections[Key.WEAR] = <<<<"*", " ", "a">>, <<"*", " ", "b">>>>
    /\ wear = <<"a", " ", " ", "b">>
    /\ eat = << >>
    /\ alert = <<"c">>
    /\ Key.PLACES \notin DOMAIN sections

\* the chips of the alert in the tip list
alertTips == SelectSeq(tips, LAMBDA t : t.icon = "alert")
alertIsNone ==
    toUpperCase(alert) \in {<<"N","O","N","E">>, <<"N","O","N","E",".">>}

\* C16: an ALERT value equal to 'none' or 'none.' in any letter case makes
\* no alert tip in the tip list displayed, every other non-empty ALERT value
\* makes exactly one, with the value as its text; the filter works when the
\* tips are built, and the ALERT string parsed stays as it was parsed.
C16_NoneAlertMakesNoTip ==
    advisorRendered =>
        /\ alert = trim(joinedLines(Key.ALERT))
        /\ IF alert = << >> \/ alertIsNone
           THEN alertTips = << >>
           ELSE alertTips = <<[icon |-> "alert", text |-> alert]>>
        /\ Len(tips) > 0 <=> \E b \in DOMAIN advisorHtml : advisorHtml[b] = "tips"

\* 'none.' is parsed and kept, and makes no chip beside the one of EAT
C16_Witness ==
    /\ advisorRendered
    /\ adviceText = SampleTexts.alertNoneDot
    /\ alert = <<"n", "o", "n", "e", ".">>
    /\ tips = <<[icon |-> "eat", text |-> <<"F", "i", "g", " ", "t", "a", "r", "t">>]>>

\* C25: after a travel-advice request has failed, a click on the Retry
\* button issues a new fetchTravelAdvice with the weather data and the AQI
\* of the failed request: the panel is back in the loading state and the
\* call under way has the arguments of the call that failed.
C25_RetryRefetchesFailedRequest ==
    retryClicked =>
        /\ advisorHtml = Panel.loading
        /\ adviceRequest # Null
        /\ lastAdviceData = adviceRequest

repeatedKeys == {K \in SectionKeys : Cardinality(labelLinesOf(K)) > 1}
fromLine(j) == join(SubSeq(textLines, j, Len(textLines)), <<"\n">>)

\* C28: when a section label occurs more than once in the text, the later
\* occurrence resets the section: what was gathered under the earlier
\* occurrences is discarded, and the section parsed is the one parsed from
\* the text that starts at the last label line of the key, with as many
\* lines as follow that label under it.
C28_RepeatedLabelResets ==
    advisorRendered =>
        \A K \in repeatedKeys :
            LET last == setMax(labelLinesOf(K))
            IN  /\ K \in DOMAIN sections
                /\ sections[K] = parseSections(fromLine(last))[K]
                /\ Len(sections[K])
                      = Cardinality(contentLinesOf(last))
                          + (IF labelRest(trimmedLine(last)) # << >>
                             THEN 1 ELSE 0)

\* 'WEAR: a', 'b', 'EAT: c', 'WEAR: d', 'e' parsed: WEAR holds d and e only
C28_Witness ==
    /\ advisorRendered
    /\ adviceText = SampleTexts.repeated
    /\ repeatedKeys = {Key.WEAR}
    /\ sections[Key.WEAR] = <<<<"d">>, <<"e">>>>
    /\ sections[Key.EAT] = <<<<"c">>>>

----------------------------------------------------------------------------
(* Claims on the fetch orchestration *)

\* the request has its weather: the main page shows the weather card, the
\* compare page has both weather bodies
mainHasWeather == resultCard = "weather"
compareHasWeather ==
    \A s \in Calls.sides : /\ weatherCalls[s].state = "fulfilled"
                     /\ weatherCalls[s].value[1].hasCoord

\* C10: a failure of a non-critical fetch (AQI, UV, summary) never
\* propagates to the caller. On the main page and on the compare page no
\* such call's promise rejects; once the main page's request is done with
\* its weather the extras are rendered, and once the compare page's request
\* is done with both weathers the results are shown and no failure is.
C10_NonCriticalFailureContained ==
    /\ \A c \in Calls.extras : extraCalls[c].state # "rejected"
    /\ \A s \in Calls.sides : aqiCalls[s].state # "rejected"
    /\ (mainPhase = "done" /\ mainHasWeather) => extrasRendered
    /\ (comparePhase = "done" /\ compareHasWeather) =>
          /\ compareResults = "shown"
          /\ compareError # "request failed"

----------------------------------------------------------------------------
(* Claims on the verdict parser *)

\* The WINNER field of the text rendered: what stands between the first
\* WINNER: label and the first REASON: label after it, or the end of the
\* text; it does not resolve when the label is missing or when only blanks
\* stand there.
winnerLabels == {i \in DOMAIN verdictText : MatchAt(verdictText, Label.winner, i)}
winnerFieldStart == setMin(winnerLabels) + Len(Label.winner)
winnerFieldEnd ==
    LET next == {i \in winnerFieldStart..Len(verdictText) :
                    MatchAt(verdictText, Label.reason, i)}
    IN  IF next = {} THEN Len(verdictText) ELSE setMin(next) - 1
winnerResolves ==
    /\ winnerLabels # {}
    /\ trim(SubSeq(verdictText, winnerFieldStart, winnerFieldEnd)) # << >>

\* C12: when the WINNER field does not resolve to a non-empty string (the
\* label is missing, or only blanks follow it) renderVerdict shows the
\* complete raw text and nothing of the structured view; when it does, the
\* structured view is shown.
C12_RawTextUnlessWinner ==
    verdictContent.view \in {"raw", "structured"} =>
        IF winnerResolves
        THEN verdictContent.view = "structured"
        ELSE /\ verdictContent.view = "raw"
             /\ verdictContent.text = replaceNewlines(verdictText)
             /\ verdictContent.winner = << >>

----------------------------------------------------------------------------
(* Claims on the gear list *)

\* the readings the answer was computed from, absent ones aside
gearBody == placesRequest[1]
answered == placesRequest # Null /\ placesAnswered
mentions(word) ==
    /\ gearBody.condition # Null
    /\ includesIgnoreCase(gearBody.condition[1], word)
uvAbove5 == gearBody.uv # Null /\ gearBody.uv[1] > 5 * Scale
tempBelow15 == gearBody.temp # Null /\ gearBody.temp[1] < 15
tempAbove30 == gearBody.temp # Null /\ gearBody.temp[1] > 30

\* the items the rules added: the list, the item for all weathers aside
ruleItems == without(gear, Gear.shoes)

\* the list claimed, the umbrella rule given
claimedItems(umbrellaRule) ==
    (IF uvAbove5 THEN <<"Sunscreen", "Hat/Sunglasses">> ELSE << >>)
    \o (IF umbrellaRule THEN <<"Umbrella">> ELSE << >>)
    \o (IF mentions(Word.snow) THEN <<"Boots">> ELSE << >>)
    \o (IF tempBelow15 THEN <<"Coat/Jacket">>
        ELSE IF tempAbove30 THEN <<"Water Bottle">> ELSE << >>)

someRuleHolds ==
    \/ uvAbove5
    \/ \E w \in {Word.rain, Word.drizzle, Word.thunder, Word.snow} : mentions(w)
    \/ tempBelow15
    \/ tempAbove30
inGear(item) == \E i \in DOMAIN gear : gear[i] = item
isExampleBody(t) ==
    /\ gearBody.temp = Some(t)
    /\ gearBody.condition = Some(Main.clear)
    /\ gearBody.uv = Some(Scale)

\* C21: the gear list is never empty, and 'Comfortable Shoes' is in it if
\* and only if none of the uv, rain, snow and temperature rules added an
\* item, and then it is the only entry; 5 degrees, Clear, uv 1 gives exactly
\* 'Coat/Jacket', and 20 degrees, Clear, uv 1 exactly 'Comfortable Shoes'.
C21_ShoesIffNoRule ==
    answered =>
        /\ gear # << >>
        /\ inGear("Comfortable Shoes") <=> ~someRuleHolds
        /\ inGear("Comfortable Shoes") => gear = <<"Comfortable Shoes">>
        /\ isExampleBody(5) => gear = <<"Coat/Jacket">>
        /\ isExampleBody(20) => gear = <<"Comfortable Shoes">>

\* 20 degrees under a clear sky with uv 1: the one item for all weathers
C21_Witness ==
    /\ answered
    /\ isExampleBody(20)
    /\ gear = <<"Comfortable Shoes">>

----------------------------------------------------------------------------
(* Claims on the autosuggest debounce *)

inputsSoFar == {j \in DOMAIN events : events[j].kind = "input"}

\* C26: autosuggest is debounced. Every input event cancels the pending
\* timer, so at most one timer is pending, and it is the timer of the last
\* input event; fetchSuggestions is called only with a trimmed value of
\* length 3 or more, and only 300 ms or more after the input event that
\* directly precedes the call: no input event lies between that event and
\* the call, so a burst of keystrokes causes at most one fetch, for the
\* last value typed.
C26_AutosuggestDebounced ==
    /\ Cardinality(timers) <= 1
    /\ \A t \in timers :
          /\ inputsSoFar # {}
          /\ LET last == events[setMax(inputsSoFar)]
             IN  /\ t.val = trim(last.value)
                 /\ t.due = last.at + 300
                 /\ events[Len(events)].kind = "input"
    /\ \A j \in DOMAIN events :
          events[j].kind = "fetch" =>
              /\ j > 1
              /\ events[j - 1].kind = "input"
              /\ events[j].value = trim(events[j - 1].value)
              /\ Len(events[j].value) >= 3
              /\ events[j].at - events[j - 1].at >= 300

\* 'pari' and, a millisecond later, 'par ' are typed; one fetch follows,
\* for 'par', 300 ms after the second keystroke
C26_Witness ==
    /\ Len(events) = 3
    /\ events[1] = [kind |-> "input", value |-> <<"p", "a", "r", "i">>,
                    at |-> 0]
    /\ events[2] = [kind |-> "input", value |-> <<"p", "a", "r", " ">>,
                    at |-> 1]
    /\ events[3] = [kind |-> "fetch", value |-> <<"p", "a", "r">>,
                    at |-> 301]
    /\ timers = {}

----------------------------------------------------------------------------
(* Claims on the service worker *)

hasApiPath(u) ==
    \E i \in 1..(Len(u) - 4) : SubSeq(u, i, i + 4) = <<"/","a","p","i","/">>
wasIn(i, phase) == i \in DOMAIN fetchEvents /\ fetchEvents[i].phase = phase

----------------------------------------------------------------------------
(* Claims on searches that overlap *)

settledSearch(i) == searches[i].phase \in {"done", "failed"}

\* C29: when two searches overlap, then once both have settled
\* state.currentCity, state.weatherData and the main weather card are those
\* of the search started last, whatever the order of the two responses.
C29_LastStartedSearchWins ==
    (/\ Len(searches) = 2
     /\ settledSearch(1) /\ settledSearch(2)
     /\ searches[2].phase = "done")
        => /\ currentCity = searches[2].city
           /\ weatherData = Some([name |-> searches[2].city, search |-> 2])
           /\ mainCard = "weather of 2"

\* C30: the forecast that showPlanner requests is for the city of the
\* weather data of the processWeatherData call that called it, also when
\* another search went through processWeatherData while that call waited
\* for its AQI, summary and UV fetches.
C30_PlannerForTriggeringCity ==
    \A j \in DOMAIN forecastRequests :
        forecastRequests[j].city = searches[forecastRequests[j].search].city

====
